---- MODULE Spec2Model ----
(***************************************************************************)
(* Model of the cooperative context runtime (ircd::ctx): the note counter, *)
(* the alarm every context waits on, interruption, the this_ctx wait       *)
(* family, yield and context::join, on top of a single-threaded io_service *)
(* handler queue.                                                          *)
(***************************************************************************)
EXTENDS Integers, Sequences, FiniteSets, TLC

\* ---------------------------------------------------------------- bounds
MaxCalls == 3      \* calls of the ctx interface made in one run, over all callers
MaxSubmit == 2     \* closures submitted to the pool in one run
MaxOffload == 2    \* calls of ctx::ole::offload() in one run
MaxContentEdits == 2  \* keys of contents dropped or changed before event::sign()
MaxCommits == 2    \* write batches committed to the events database in one run
MaxEdits == 2      \* fields changed on a received event in one run
MaxNotify == 2     \* calls of view::notify() in one run
MaxPending == 2    \* notes a running context holds beyond the one that keeps it awake

\* ---------------------------------------------------------------- constants
Tasks  == {1, 2}
Durations == {0, 1} \* a timed call is already due, or due one clock step ahead
NoTask == 0        \* ircd::ctx::current == nullptr / adjoindre == nullptr
Never  == -1       \* steady_clock::time_point::max()
NoCtx == -1        \* ircd::ctx::current == nullptr
NoProcess == -2    \* std::terminate() was called: nothing runs any more
PoolUser == 0      \* the context that submits to the pool and joins it
PoolWorkers == {1, 2}
PoolCtxs == {PoolUser} \cup PoolWorkers
ViewProducer == 0  \* the context that calls view::notify()
ViewConsumers == {1, 2}
ViewCtxs == {ViewProducer} \cup ViewConsumers

BlockingOps == {"wait", "wait_for", "wait_until", "sleep", "yield", "join"}

VARIABLES
    notes,       \* ctx::notes
    flags,       \* ctx::flags (a set of flag names)
    yc,          \* ctx::yc != nullptr
    adjoindre,   \* ctx::adjoindre
    alarm,       \* ctx::alarm: [expires, pending] (pending: an async_wait is outstanding)
    current,     \* ircd::ctx::current
    queue,       \* the io_service's queue of ready handlers, FIFO
    now,         \* steady_clock::now()
    pc,          \* what each context is executing: idle, run, a blocking call, done
    arg,         \* the argument of the blocking call in progress (deadline, duration, target)
    done,        \* the local `done` of the yield() frame in progress
    noted,       \* history: a notification reached the context before the deadline of its call
    icalls,      \* history: interrupt() calls on the context since its flag was last clear
    returned,    \* history: the context's function has returned (or was skipped)
    calls,       \* history: the number of interface calls made so far
    last         \* history: what the last step did

vars == <<notes, flags, yc, adjoindre, alarm, current, queue, now, pc, arg,
          done, noted, icalls, returned, calls, last>>

\* The layers built on the runtime keep their own state; the runtime's actions
\* leave it alone, and each layer's specification leaves the runtime at Init.
VARIABLES
    sp,          \* context construction and handle lifetime (ctx::context)
    pool,        \* a ctx::pool, its workers and the context using it
    ole,         \* ctx::ole: the offload thread, its queue and an offloading context
    view,        \* a ctx::view, its producer and its consumers
    evt,         \* an m::event under construction, its conformance report and minted id
    sgn,         \* an event iov being signed by event::sign(event, contents)
    rd,          \* the events database and one m::event::event(id, buf) reading from it
    con,         \* the admin console: listeners, conf items and the last command
    mx           \* the matrix subsystems: dbs, fetch, modules and the module imports

others == <<sp, pool, ole, view, evt, sgn, rd, con, mx>>
not_sp == <<vars, pool, ole, view, evt, sgn, rd, con, mx>>      \* everything the context layer leaves alone
not_pool == <<vars, sp, ole, view, evt, sgn, rd, con, mx>> \* everything the pool layer leaves alone
not_ole == <<vars, sp, pool, view, evt, sgn, rd, con, mx>> \* everything the offload layer leaves alone
not_view == <<vars, sp, pool, ole, evt, sgn, rd, con, mx>> \* everything the view layer leaves alone
not_evt == <<vars, sp, pool, ole, view, sgn, rd, con, mx>> \* everything the event layer leaves alone
not_sgn == <<vars, sp, pool, ole, view, evt, rd, con, mx>> \* everything the signing layer leaves alone
not_rd == <<vars, sp, pool, ole, view, evt, sgn, con, mx>> \* everything the event read layer leaves alone
not_con == <<vars, sp, pool, ole, view, evt, sgn, rd, mx>> \* everything the console layer leaves alone
not_mx == <<vars, sp, pool, ole, view, evt, sgn, rd, con>> \* everything the matrix layer leaves alone

\* pool::pool(name, stack_size, size) has run with size = 2 in the context
\* PoolUser: add() constructed every worker with context::POST.
PoolRest ==
    [queue |-> <<>>, dock |-> <<>>, available |-> 0, ctxs |-> <<1, 2>>,
     ctx |-> [x \in PoolCtxs |->
                [st |-> IF x = PoolUser THEN "run" ELSE "posted", notes |-> 1,
                 flags |-> {}, pend |-> FALSE, adj |-> FALSE]],
     cur |-> PoolUser,
     ios |-> <<[k |-> "spawn", t |-> 1], [k |-> "spawn", t |-> 2]>>,
     nsub |-> 0, started |-> <<>>, by |-> <<>>, freed |-> {}, act |-> "init",
     who |-> NoCtx]

\* ole::init() has started the offload thread; a context is running and has
\* not called offload() yet.
OleRest ==
    [frame |-> 0, calls |-> 0, done |-> FALSE, st |-> "run", notes |-> 1,
     flags |-> {}, pend |-> FALSE, queue |-> <<>>, thread |-> 0, ios |-> <<>>,
     execs |-> [f \in 1..MaxOffload |-> 0], completed |-> {}, kicked |-> {},
     ret |-> 0, act |-> "init",
     interruption |-> FALSE, worker |-> "alive", dtor |-> "none", left |-> {}]

\* view::view() = default: t{nullptr}, waiting{0}; no context is inside the
\* view or holds its mutex, and none is running.
ViewRest ==
    [t |-> 0, waiting |-> 0, q |-> <<>>, owner |-> NoCtx, mq |-> <<>>,
     ctx |-> [x \in ViewCtxs |->
                [st |-> "out", notes |-> 1, flags |-> {}, pend |-> FALSE]],
     cur |-> NoCtx, ios |-> <<>>, atcall |-> {}, got |-> {}, act |-> "init",
     n |-> 0, seen |-> [c \in ViewConsumers |-> {}], dup |-> FALSE, back |-> {}]

\* no event has been received yet
EventRest ==
    [e |-> <<>>, edits |-> 0, conformed |-> FALSE, report |-> {},
     minted |-> FALSE, id |-> <<>>, act |-> "init"]

\* no event iov has been handed to event::sign() yet
SignRest ==
    [type |-> "", contents |-> <<>>, iov |-> <<>>, before |-> <<>>,
     preimage |-> <<>>, edits |-> 0, act |-> "init"]

\* the events database holds one committed state of the event's row; no read
\* is in progress
ReadRest ==
    [hist |-> <<[c \in {"type", "sender", "content"} |-> 0]>>, snap |-> 0, i |-> 0,
     event |-> <<>>, act |-> "init"]

\* the server runs: s_listen's on_load() loaded no listener, every conf item
\* has its default value, no console command was entered
ConsoleRest ==
    [listeners |-> <<>>,
     items |-> [key \in {"ircd.web.root.path", "ircd.name"} |-> "default"],
     cmd |-> "none", name |-> "", key |-> "", val |-> "", out |-> <<>>, ok |-> TRUE]

\* the matrix module is not loaded: no subsystem is initialised, no module imported
MatrixRest ==
    [dbs |-> FALSE, fetch |-> FALSE, modules |-> FALSE, imports |-> {},
     phase |-> "down", tried |-> <<>>, loaded |-> <<>>, unloaded |-> <<>>,
     inits |-> <<>>, finis |-> <<>>, out |-> ""]

\* context layer at rest: no handle has been constructed
SpawnRest ==
    [flags |-> {}, c |-> FALSE, handle |-> "none", child |-> "none", parent |-> "run",
     cur |-> "parent", ios |-> <<>>, adj |-> FALSE, freed |-> 0, yielded |-> FALSE,
     act |-> "init"]

\* ---------------------------------------------------------------- pure code

\* ctx::note(): if(notes++ > 0) return false; wake(); return true;
note_mut(n) == ~(n > 1)
note(n) == ~(n > 0)

\* ctx::wait(): if(--notes > 0) return false;   (TRUE: returns without suspending)
wait_mut(n) == n > 0
wait_returns(n) == (n - 1) > 0

\* continuation::~continuation(): self->notes = 1;
continuation_mut(n) == IF n > 1 THEN n ELSE 1
continuation_notes(n) == 1

\* ctx::interruption_point(std::nothrow_t): the test ...
interruption_requested(f) == "INTERRUPTED" \in f

\* ... and the flags it leaves: flags &= ~INTERRUPTED when the test succeeded
interruption_point_mut(f) == f
interruption_point_flags(f) == f \ {"INTERRUPTED"}

\* interrupt(): ctx.flags |= context::INTERRUPTED
interrupt_flags(f) == f \cup {"INTERRUPTED"}

\* this_ctx::wait_until(tp, nothrow): return steady_clock::now() >= tp
wait_until_mut(clock, tp) == TRUE
wait_until_ret(clock, tp) == clock >= tp

\* this_ctx::wait(duration, nothrow): c.alarm.expires_from_now()
wait_remaining(expires, clock) == expires - clock

\* throw overload of wait(duration): return ret <= duration(0) ? throw E{} : ret
wait_throw(ret) == IF ret <= 0 THEN "timeout" ELSE "none"

\* throw overload of wait_until(tp): if(wait_until<std::nothrow_t>(tp)) throw E{}
wait_until_throw(reached) == IF reached THEN "timeout" ELSE "none"

\* this_ctx::yield(): do wait(); while(!done);   (TRUE: the loop ends)
yield_mut(dn) == TRUE
yield_done(dn) == dn

\* ctx::finished(): yc == nullptr
finished(u) == ~yc[u]

\* context::joined(): !c || finished(*c)
joined(u) == finished(u)

\* ---------------------------------------------------------------- handlers

Handler(k, t, ec) == [k |-> k, t |-> t, ec |-> ec]

\* alarm.cancel(): an outstanding async_wait completes with operation_canceled
wake_queue(al, q, u) ==
    IF al[u].pending THEN Append(q, Handler("resume", u, "canceled")) ELSE q

wake_alarm(al, u) == [al EXCEPT ![u].pending = FALSE]

\* the queue and alarm after ctx::note() on u with the counter at n
note_queue(al, q, u, n) == IF note(n) THEN wake_queue(al, q, u) ELSE q

note_alarm(al, u, n) == IF note(n) THEN wake_alarm(al, u) ELSE al

BeforeNever(u) == alarm[u].expires = Never

BeforeDeadline(u) == alarm[u].expires = Never \/ now < alarm[u].expires

\* history: the notification counts as one that reached u's call before its deadline
note_noted(u) ==
    [noted EXCEPT ![u] = @ \/ (pc[u] \in BlockingOps /\ BeforeDeadline(u))]

\* What a step did: the acting context t, the blocking call op it was in, whether
\* that call ended in this step (fin) and how (exc, ret), the call's argument a,
\* t's note counter before the step (k), the error code a resume was delivered
\* with (ec), whether a notification had reached the call in time (nd), and the
\* target and result of the step's call to notify() (nt, nret).
Base ==
    [act |-> "init", t |-> NoTask, op |-> "none", fin |-> FALSE, exc |-> "none",
     ret |-> 0, a |-> 0, k |-> 0, ec |-> "none", nd |-> FALSE,
     nt |-> NoTask, nret |-> FALSE]

\* ---------------------------------------------------------------- initial state
\* Every context has been constructed with context::POST from the main stack:
\* ctx::ctx() has run and the spawn closure is posted to the io_service.
CtxInit ==
    /\ notes = [t \in Tasks |-> 1]
    /\ flags = [t \in Tasks |-> {"POST"}]
    /\ yc = [t \in Tasks |-> FALSE]
    /\ adjoindre = [t \in Tasks |-> NoTask]
    /\ alarm = [t \in Tasks |-> [expires |-> 0, pending |-> FALSE]]
    /\ current = NoTask
    /\ queue = <<Handler("spawn", 1, "none"), Handler("spawn", 2, "none")>>
    /\ now = 0
    /\ pc = [t \in Tasks |-> "idle"]
    /\ arg = [t \in Tasks |-> 0]
    /\ done = [t \in Tasks |-> FALSE]
    /\ noted = [t \in Tasks |-> FALSE]
    /\ icalls = [t \in Tasks |-> 0]
    /\ returned = [t \in Tasks |-> FALSE]
    /\ calls = 0
    /\ last = Base

Init ==
    /\ CtxInit
    /\ sp = SpawnRest
    /\ pool = PoolRest
    /\ ole = OleRest
    /\ view = ViewRest
    /\ evt = EventRest
    /\ sgn = SignRest
    /\ rd = ReadRest
    /\ con = ConsoleRest
    /\ mx = MatrixRest

\* one more call of the interface, within the bound
Called == calls < MaxCalls /\ calls' = calls + 1

\* ---------------------------------------------------------------- scheduler

\* boost::asio::spawn runs ctx::operator() on the context's strand.
\* A precocious interrupt skips the function; the atexit unwind runs either way.
RunSpawn(t) ==
    /\ current = NoTask
    /\ queue # <<>>
    /\ Head(queue).k = "spawn" /\ Head(queue).t = t
    /\ IF interruption_requested(flags[t])
       THEN LET j == adjoindre[t] IN
            /\ yc' = [yc EXCEPT ![t] = FALSE]
            /\ pc' = [pc EXCEPT ![t] = "done"]
            /\ returned' = [returned EXCEPT ![t] = TRUE]
            /\ current' = NoTask
            /\ notes' = IF j = NoTask THEN [notes EXCEPT ![t] = 1]
                        ELSE [notes EXCEPT ![t] = 1, ![j] = @ + 1]
            /\ queue' = IF j = NoTask THEN Tail(queue)
                        ELSE note_queue(alarm, Tail(queue), j, notes[j])
            /\ alarm' = IF j = NoTask THEN alarm ELSE note_alarm(alarm, j, notes[j])
            /\ noted' = IF j = NoTask THEN noted ELSE note_noted(j)
            /\ last' = [Base EXCEPT !.act = "skipped", !.t = t, !.nt = j,
                                    !.nret = (j # NoTask /\ note(notes[j])),
                                    !.k = IF j = NoTask THEN 0 ELSE notes[j]]
       ELSE /\ yc' = [yc EXCEPT ![t] = TRUE]
            /\ pc' = [pc EXCEPT ![t] = "run"]
            /\ current' = t
            /\ notes' = [notes EXCEPT ![t] = 1]
            /\ queue' = Tail(queue)
            /\ last' = [Base EXCEPT !.act = "enter", !.t = t]
            /\ UNCHANGED <<returned, alarm, noted>>
    /\ UNCHANGED <<flags, adjoindre, now, arg, done, icalls, calls>>
    /\ UNCHANGED others

\* The function returns: the atexit unwind of ctx::operator().
Finish(t) ==
    /\ current = t /\ pc[t] = "run"
    /\ LET j == adjoindre[t] IN
       /\ notes' = IF j = NoTask THEN notes ELSE [notes EXCEPT ![j] = @ + 1]
       /\ queue' = IF j = NoTask THEN queue ELSE note_queue(alarm, queue, j, notes[j])
       /\ alarm' = IF j = NoTask THEN alarm ELSE note_alarm(alarm, j, notes[j])
       /\ noted' = IF j = NoTask THEN noted ELSE note_noted(j)
       /\ last' = [Base EXCEPT !.act = "leave", !.t = t, !.nt = j,
                               !.nret = (j # NoTask /\ note(notes[j])),
                               !.k = IF j = NoTask THEN 0 ELSE notes[j]]
    /\ current' = NoTask
    /\ yc' = [yc EXCEPT ![t] = FALSE]
    /\ pc' = [pc EXCEPT ![t] = "done"]
    /\ returned' = [returned EXCEPT ![t] = TRUE]
    /\ UNCHANGED <<flags, adjoindre, now, arg, done, icalls, calls>>
    /\ UNCHANGED others

\* steady_clock advances between two handlers. The clock is read only against
\* the deadline of a call in progress, so it is advanced only while one lies ahead.
Tick ==
    /\ current = NoTask
    /\ \E t \in Tasks : pc[t] \in BlockingOps /\ ~BeforeNever(t) /\ now < alarm[t].expires
    /\ now' = now + 1
    /\ last' = [Base EXCEPT !.act = "tick"]
    /\ UNCHANGED <<notes, flags, yc, adjoindre, alarm, current, queue, pc, arg,
                   done, noted, icalls, returned, calls>>
    /\ UNCHANGED others

\* The io_service finds the alarm expired: the async_wait completes with success.
TimerExpire(t) ==
    /\ current = NoTask
    /\ alarm[t].pending
    /\ alarm[t].expires # Never
    /\ now >= alarm[t].expires
    /\ alarm' = [alarm EXCEPT ![t].pending = FALSE]
    /\ queue' = Append(queue, Handler("resume", t, "success"))
    /\ last' = [Base EXCEPT !.act = "expire", !.t = t]
    /\ UNCHANGED <<notes, flags, yc, adjoindre, current, now, pc, arg, done, noted,
                   icalls, returned, calls>>
    /\ UNCHANGED others

\* ---------------------------------------------------------------- notify, interrupt

\* notify(ctx) called by the running context t
Notify(t, u) ==
    /\ current = t /\ pc[t] = "run"
    /\ Called
    /\ notes' = [notes EXCEPT ![u] = @ + 1]
    /\ queue' = note_queue(alarm, queue, u, notes[u])
    /\ alarm' = note_alarm(alarm, u, notes[u])
    /\ noted' = note_noted(u)
    /\ last' = [Base EXCEPT !.act = "notify", !.t = t, !.nt = u,
                            !.nret = note(notes[u]), !.k = notes[u]]
    /\ UNCHANGED <<flags, yc, adjoindre, current, now, pc, arg, done, icalls, returned>>
    /\ UNCHANGED others

\* notify(ctx, threadsafe): another thread posts the notify to the context's strand.
\* Handlers run only between two slices, so a post made during a slice is
\* modelled at the boundary before or after it.
ExtNotify(u) ==
    /\ current = NoTask
    /\ Called
    /\ queue' = Append(queue, Handler("note", u, "none"))
    /\ last' = [Base EXCEPT !.act = "signal", !.nt = NoTask]
    /\ UNCHANGED <<notes, flags, yc, adjoindre, alarm, current, now, pc, arg, done,
                   noted, icalls, returned>>
    /\ UNCHANGED others

\* the posted closure runs: notify(ctx)
RunNote(u) ==
    /\ current = NoTask
    /\ queue # <<>>
    /\ Head(queue).k = "note" /\ Head(queue).t = u
    /\ notes' = [notes EXCEPT ![u] = @ + 1]
    /\ queue' = note_queue(alarm, Tail(queue), u, notes[u])
    /\ alarm' = note_alarm(alarm, u, notes[u])
    /\ noted' = note_noted(u)
    /\ last' = [Base EXCEPT !.act = "note", !.nt = u, !.nret = note(notes[u]),
                            !.k = notes[u]]
    /\ UNCHANGED <<flags, yc, adjoindre, current, now, pc, arg, done, icalls, returned,
                   calls>>
    /\ UNCHANGED others

\* interrupt(ctx) called by the running context t
Interrupt(t, u) ==
    /\ current = t /\ pc[t] = "run"
    /\ Called
    /\ flags' = [flags EXCEPT ![u] = interrupt_flags(@)]
    /\ icalls' = [icalls EXCEPT ![u] = @ + 1]
    /\ queue' = wake_queue(alarm, queue, u)
    /\ alarm' = wake_alarm(alarm, u)
    /\ last' = [Base EXCEPT !.act = "interrupt", !.t = t, !.a = u]
    /\ UNCHANGED <<notes, yc, adjoindre, current, now, pc, arg, done, noted, returned>>
    /\ UNCHANGED others

\* this_ctx::interruption_point() called by the running context t
InterruptionPoint(t) ==
    /\ current = t /\ pc[t] = "run"
    /\ Called
    /\ LET raised == interruption_requested(flags[t])
           f == IF raised THEN interruption_point_flags(flags[t]) ELSE flags[t]
       IN /\ flags' = [flags EXCEPT ![t] = f]
          /\ icalls' = [icalls EXCEPT ![t] = IF interruption_requested(f) THEN @ ELSE 0]
          /\ last' = [Base EXCEPT !.act = "interruption_point", !.t = t,
                                  !.op = "interruption_point", !.fin = TRUE,
                                  !.exc = IF raised THEN "interrupted" ELSE "none",
                                  !.k = icalls[t]]
    /\ UNCHANGED <<notes, yc, adjoindre, alarm, current, queue, now, pc, arg, done,
                   noted, returned>>
    /\ UNCHANGED others

\* ---------------------------------------------------------------- blocking calls

\* The deadline the call in progress arms the alarm with, just before ctx::wait():
\* this_ctx::wait() uses time_point::max(), wait(duration) expires_from_now(duration),
\* wait_until()/sleep_until() expires_at(tp).
Expiry(op, a, clock) ==
    CASE op \in {"wait", "yield", "join"} -> Never
      [] op = "wait_for" -> clock + a
      [] OTHER -> a

\* What the call does once ctx::wait() has come back (raised: the interruption
\* point after a resume threw): [fin: the call ends, exc, ret]. For wait(duration)
\* and wait_until(tp), ret is what the nothrow overload returns and exc what the
\* throwing overload, which wraps it, raises: Timeout when ret <= 0, resp. ret is true.
Outcome(op, raised, clock, expires, a, dn) ==
    IF raised THEN [fin |-> TRUE, exc |-> "interrupted", ret |-> 0]
    ELSE CASE op \in {"wait", "join"} ->
                [fin |-> TRUE, exc |-> "none", ret |-> 0]
           [] op = "wait_for" ->
                [fin |-> TRUE,
                 exc |-> wait_throw(wait_remaining(expires, clock)),
                 ret |-> wait_remaining(expires, clock)]
           [] op = "wait_until" ->
                [fin |-> TRUE,
                 exc |-> wait_until_throw(wait_until_ret(clock, a)),
                 ret |-> IF wait_until_ret(clock, a) THEN 1 ELSE 0]
           [] op = "sleep" ->
                [fin |-> wait_until_ret(clock, a), exc |-> "none", ret |-> 0]
           [] op = "yield" ->
                [fin |-> yield_done(dn), exc |-> "none", ret |-> 0]

\* ctx::wait() called by t inside the blocking call op with argument a: the alarm
\* is armed, the note counter is decremented, and the context suspends unless
\* notes remain (q: the handler queue, nd0: noted so far, dn: yield's done).
WaitBody(t, op, a, q, nd0, dn) ==
    LET exp == Expiry(op, a, now)
        imm == wait_returns(notes[t])
        out == Outcome(op, FALSE, now, exp, a, dn)
        nd == nd0 \/ (imm /\ (exp = Never \/ now < exp))
        fin == imm /\ out.fin
    IN /\ notes' = [notes EXCEPT ![t] = @ - 1]
       /\ alarm' = [alarm EXCEPT ![t] = [expires |-> exp, pending |-> ~imm]]
       /\ current' = IF imm THEN t ELSE NoTask
       /\ pc' = [pc EXCEPT ![t] = IF fin THEN "run" ELSE op]
       /\ arg' = [arg EXCEPT ![t] = IF fin THEN 0 ELSE a]
       /\ done' = [done EXCEPT ![t] = IF fin THEN FALSE ELSE dn]
       /\ noted' = [noted EXCEPT ![t] = IF fin THEN FALSE ELSE nd]
       /\ queue' = q
       /\ last' = [Base EXCEPT !.act = IF imm THEN "wait_returned" ELSE "wait_suspended",
                               !.t = t, !.op = op, !.fin = fin,
                               !.exc = out.exc, !.ret = IF fin THEN out.ret ELSE 0,
                               !.a = a, !.k = notes[t], !.nd = nd]

\* The running context t enters a blocking call and reaches its first ctx::wait().
Begin(t, op, a, q) ==
    /\ current = t /\ pc[t] = "run"
    /\ Called
    /\ WaitBody(t, op, a, q, FALSE, FALSE)
    /\ UNCHANGED <<flags, yc, now, icalls, returned>>

\* this_ctx::wait()
Wait(t) ==
    /\ Begin(t, "wait", 0, queue)
    /\ UNCHANGED adjoindre
    /\ UNCHANGED others

\* this_ctx::wait(duration), nothrow and throwing overloads
WaitFor(t, d) ==
    /\ Begin(t, "wait_for", d, queue)
    /\ UNCHANGED adjoindre
    /\ UNCHANGED others

\* this_ctx::wait_until(tp), nothrow and throwing overloads, tp = now + d
WaitUntil(t, d) ==
    /\ Begin(t, "wait_until", now + d, queue)
    /\ UNCHANGED adjoindre
    /\ UNCHANGED others

\* this_ctx::sleep(d): sleep_until(steady_clock::now() + d)
Sleep(t, d) ==
    /\ Begin(t, "sleep", now + d, queue)
    /\ UNCHANGED adjoindre
    /\ UNCHANGED others

\* this_ctx::yield(): ios->post(restore), then the wait loop
Yield(t) ==
    /\ Begin(t, "yield", 0, Append(queue, Handler("restore", t, "none")))
    /\ UNCHANGED adjoindre
    /\ UNCHANGED others

\* context::join() on the handle of u
Join(t, u) ==
    /\ u # t
    /\ current = t /\ pc[t] = "run"
    /\ IF joined(u)
       THEN /\ Called
            /\ last' = [Base EXCEPT !.act = "joined", !.t = t, !.op = "join", !.a = u,
                                    !.fin = TRUE, !.k = notes[t]]
            /\ UNCHANGED <<notes, flags, yc, adjoindre, alarm, current, queue, now, pc,
                           arg, done, noted, icalls, returned>>
       ELSE /\ adjoindre[u] = NoTask            \* assert(!c->adjoindre)
            /\ Begin(t, "join", u, queue)
            /\ adjoindre' = [adjoindre EXCEPT ![u] = t]
    /\ UNCHANGED others

\* The loop of sleep_until() or yield() calls ctx::wait() again.
CtxWait(t) ==
    /\ current = t /\ pc[t] \in BlockingOps
    /\ WaitBody(t, pc[t], arg[t], queue, noted[t], done[t])
    /\ UNCHANGED <<flags, yc, adjoindre, now, icalls, returned, calls>>
    /\ UNCHANGED others

\* The completion handler of the async_wait runs: the continuation's destructor
\* makes t current again with notes = 1, then ctx::wait() passes its
\* interruption point and returns into the blocking call.
Resume(t) ==
    /\ current = NoTask
    /\ queue # <<>>
    /\ Head(queue).k = "resume" /\ Head(queue).t = t
    /\ LET op == pc[t]
           raised == interruption_requested(flags[t])
           f == IF raised THEN interruption_point_flags(flags[t]) ELSE flags[t]
           out == Outcome(op, raised, now, alarm[t].expires, arg[t], done[t])
       IN /\ current' = t
          /\ notes' = [notes EXCEPT ![t] = continuation_notes(@)]
          /\ flags' = [flags EXCEPT ![t] = f]
          /\ icalls' = [icalls EXCEPT ![t] = IF interruption_requested(f) THEN @ ELSE 0]
          /\ pc' = [pc EXCEPT ![t] = IF out.fin THEN "run" ELSE @]
          /\ arg' = [arg EXCEPT ![t] = IF out.fin THEN 0 ELSE @]
          /\ done' = [done EXCEPT ![t] = IF out.fin THEN FALSE ELSE @]
          /\ noted' = [noted EXCEPT ![t] = IF out.fin THEN FALSE ELSE @]
          /\ queue' = Tail(queue)
          /\ last' = [Base EXCEPT !.act = "resume", !.t = t, !.op = op,
                                  !.fin = out.fin, !.exc = out.exc, !.ret = out.ret,
                                  !.a = arg[t], !.k = notes[t],
                                  !.ec = Head(queue).ec, !.nd = noted[t]]
    /\ UNCHANGED <<yc, adjoindre, alarm, now, returned, calls>>
    /\ UNCHANGED others

\* The restore closure posted by yield() runs: done = true; notify(me).
RunRestore(t) ==
    /\ current = NoTask
    /\ queue # <<>>
    /\ Head(queue).k = "restore" /\ Head(queue).t = t
    /\ done' = [done EXCEPT ![t] = (pc[t] = "yield")]
    /\ notes' = [notes EXCEPT ![t] = @ + 1]
    /\ queue' = note_queue(alarm, Tail(queue), t, notes[t])
    /\ alarm' = note_alarm(alarm, t, notes[t])
    /\ noted' = note_noted(t)
    /\ last' = [Base EXCEPT !.act = "restore", !.nt = t, !.nret = note(notes[t]),
                            !.k = notes[t]]
    /\ UNCHANGED <<flags, yc, adjoindre, current, now, pc, arg, icalls, returned, calls>>
    /\ UNCHANGED others

\* ---------------------------------------------------------------- specification

Next ==
    \/ \E t \in Tasks : RunSpawn(t)
    \/ \E t \in Tasks : Finish(t)
    \/ Tick
    \/ \E t \in Tasks : TimerExpire(t)
    \/ \E t, u \in Tasks : Notify(t, u)
    \/ \E u \in Tasks : ExtNotify(u)
    \/ \E u \in Tasks : RunNote(u)
    \/ \E t, u \in Tasks : Interrupt(t, u)
    \/ \E t \in Tasks : InterruptionPoint(t)
    \/ \E t \in Tasks : Wait(t)
    \/ \E t \in Tasks, d \in Durations : WaitFor(t, d)
    \/ \E t \in Tasks, d \in Durations : WaitUntil(t, d)
    \/ \E t \in Tasks, d \in Durations : Sleep(t, d)
    \/ \E t \in Tasks : Yield(t)
    \/ \E t, u \in Tasks : Join(t, u)
    \/ \E t \in Tasks : CtxWait(t)
    \/ \E t \in Tasks : Resume(t)
    \/ \E t \in Tasks : RunRestore(t)

Spec == Init /\ [][Next]_vars

\* The io_service runs every ready handler in turn, and every context that is
\* running goes on until it suspends or returns (scheduling is cooperative).
Sched == \E t \in Tasks : RunSpawn(t) \/ RunNote(t) \/ Resume(t) \/ RunRestore(t)

FairSpec ==
    /\ Spec
    /\ WF_vars(Sched)
    /\ WF_vars(\E t \in Tasks : CtxWait(t))
    /\ WF_vars(\E t \in Tasks : Finish(t))

\* ---------------------------------------------------------------- properties

\* a completion handler that resumes u is queued
Scheduled(u) == \E i \in 1..Len(queue) : queue[i].k = "resume" /\ queue[i].t = u

ResumeCount(q, u) == Cardinality({i \in 1..Len(q) : q[i].k = "resume" /\ q[i].t = u})

\* u is inside a blocking call and not running
Suspended(u) == pc[u] \in BlockingOps /\ current # u

\* C1: every notify(u), whoever makes it, adds exactly one to u's note counter;
\* it reports true and leaves u scheduled exactly when the counter was 0 before,
\* and when the counter was already >= 1 it reports false and neither cancels
\* u's alarm nor queues another resume of u.
C1_NotifyWakesOnZero ==
    [][\A u \in Tasks : last'.nt = u =>
          /\ notes'[u] = notes[u] + 1
          /\ last'.nret = (notes[u] = 0)
          /\ notes[u] = 0 => Scheduled(u)'
          /\ notes[u] >= 1 =>
                /\ ResumeCount(queue', u) = ResumeCount(queue, u)
                /\ alarm'[u] = alarm[u]]_vars

\* C1 witness: a notify found the counter at 0, reported true and the context
\* is scheduled.
C1_Witness ==
    /\ last.nt \in Tasks
    /\ last.k = 0
    /\ last.nret
    /\ notes[last.nt] = 1
    /\ Scheduled(last.nt)

\* C2: ctx::wait() takes one from the caller's counter; if the result is still
\* > 0 the caller goes on running with no wait outstanding, otherwise it is
\* suspended on its alarm; a suspended context becomes current again only through
\* a queued resume, and a resume of a context waiting without deadline is queued
\* only after a notify or an interrupt reached it.
C2_WaitSuspendsUnlessNoted ==
    /\ [][\A t \in Tasks :
            (last'.t = t /\ last'.act \in {"wait_returned", "wait_suspended"}) =>
               /\ notes'[t] = notes[t] - 1
               /\ IF notes[t] - 1 > 0
                  THEN last'.act = "wait_returned" /\ current' = t /\ ~alarm'[t].pending
                  ELSE last'.act = "wait_suspended" /\ current' = NoTask
                       /\ alarm'[t].pending /\ Suspended(t)']_vars
    /\ [][\A t \in Tasks : (Suspended(t) /\ current' = t) =>
               /\ Head(queue) = Handler("resume", t, Head(queue).ec)
               /\ ~alarm[t].pending]_vars
    /\ [](\A t \in Tasks : (Scheduled(t) /\ BeforeNever(t)) =>
               (notes[t] >= 1 \/ interruption_requested(flags[t])))

\* C2 witness: wait() was called with a note pending and returned at once.
C2_Witness ==
    /\ last.act = "wait_returned"
    /\ last.op = "wait"
    /\ last.fin
    /\ last.k = 2
    /\ notes[last.t] = 1
    /\ current = last.t

\* C3 as claimed: notes are counted across a suspension. While a context is
\* suspended in wait() its counter is the number k of notifies delivered since it
\* suspended; for that wait and the next k-1 wait() calls to return without
\* another notify, the counter must still be k when the wait returns.
C3_NotesCounted ==
    [][\A t \in Tasks :
          (last'.act = "resume" /\ last'.t = t /\ last'.op = "wait" /\ last'.exc = "none")
             => notes'[t] = notes[t]]_vars

\* C3 amended: a notify is never lost, but notes are counted only while the
\* context runs. A suspended context whose counter is >= 1 is always scheduled;
\* when it resumes the counter is reset to 1 whatever it was, so the k notifies
\* delivered during the suspension end that one wait only; and wait() called
\* with n >= 2 notes returns at once leaving n - 1.
C3_NotesCollapseOnResume ==
    /\ [](\A t \in Tasks : (Suspended(t) /\ notes[t] >= 1) => Scheduled(t))
    /\ [][\A t \in Tasks : (last'.act = "resume" /\ last'.t = t) => notes'[t] = 1]_vars
    /\ [][\A t \in Tasks :
            (last'.t = t /\ last'.act \in {"wait_returned", "wait_suspended"}
                /\ notes[t] >= 2)
               => (last'.act = "wait_returned" /\ notes'[t] = notes[t] - 1)]_vars

\* C3 witness: a context resumed from wait() after two notifies had been
\* delivered during the suspension, and its counter is 1.
C3_Witness ==
    /\ last.act = "resume"
    /\ last.op = "wait"
    /\ last.exc = "none"
    /\ last.k = 2
    /\ notes[last.t] = 1

\* C4 as claimed: a context whose INTERRUPTED flag is set does not get through
\* interruption_point(), wait() or sleep without Interrupted being raised:
\* whenever one of these calls ends, it ends by raising if the flag was set.
C4_ObservedAtNextCall ==
    [][\A t \in Tasks :
          (last'.t = t /\ last'.fin /\ last'.act # "joined"
              /\ last'.op \in {"interruption_point", "wait", "sleep"}
              /\ interruption_requested(flags[t]))
             => last'.exc = "interrupted"]_vars

\* C5: interruption_point() raises exactly when the flag is set, and then clears
\* it; a raise needs at least one interrupt() since the flag was last clear, and
\* uses up all of them, so several interrupt() calls give one failure.
C5_InterruptionRecoverable ==
    /\ [][\A t \in Tasks : (last'.t = t /\ last'.act = "interruption_point") =>
               /\ (last'.exc = "interrupted") = interruption_requested(flags[t])
               /\ (last'.exc = "interrupted") =>
                     /\ ~interruption_requested(flags'[t])
                     /\ icalls[t] >= 1
                     /\ icalls'[t] = 0
               /\ current' = t /\ pc'[t] = "run"]_vars
    /\ [](\A t \in Tasks : interruption_requested(flags[t]) = (icalls[t] > 0))

\* C5 witness: interruption_point() raised once after two interrupt() calls; the
\* flag is clear and the context runs on.
C5_Witness ==
    /\ last.act = "interruption_point"
    /\ last.exc = "interrupted"
    /\ last.k = 2
    /\ ~interruption_requested(flags[last.t])
    /\ pc[last.t] = "run"

\* C6 as claimed: when context::join() returns from its wait, the target's
\* function has returned.
C6_JoinWaitsForTarget ==
    (last.fin /\ last.op = "join" /\ last.act # "joined" /\ last.exc = "none")
       => returned[last.a]

\* C7: sleep returns normally only when the clock has reached the deadline.
C7_SleepIgnoresNotes ==
    (last.fin /\ last.op = "sleep" /\ last.exc = "none") => now >= last.a

\* C7 witness: a sleep that was notified before its deadline, was resumed by its
\* alarm and returned with the deadline reached.
C7_Witness ==
    /\ last.fin
    /\ last.op = "sleep"
    /\ last.exc = "none"
    /\ last.act = "resume"
    /\ last.ec = "success"
    /\ last.nd
    /\ now >= last.a

\* the call that just ended had been reached by a notification (or found a note
\* pending) before its deadline
EndedNoted == last.nd

\* the call that just ended saw its deadline pass, no notification having
\* reached it before
EndedTimedOut == last.act = "resume" /\ ~last.nd

\* C8 as claimed: wait(duration) with duration > 0 returns > 0 exactly when a
\* notification reached the call before the deadline, and <= 0 exactly when the
\* timer expired without one.
C8_RemainingTellsCause ==
    (last.fin /\ last.op = "wait_for" /\ last.a > 0 /\ last.exc # "interrupted")
       => /\ (last.ret > 0) = EndedNoted
          /\ (last.ret <= 0) = EndedTimedOut

\* C9 as claimed: the throwing overloads of wait(duration) and wait_until(tp)
\* raise Timeout exactly when no notification reached the call before the deadline.
C9_TimeoutIffNotNotified ==
    (last.fin /\ last.op \in {"wait_for", "wait_until"} /\ last.exc # "interrupted")
       => ((last.exc = "timeout") = ~EndedNoted)

\* the restore closure of a yield() of t is still queued
RestoreQueued(t) == \E i \in 1..Len(queue) : queue[i].k = "restore" /\ queue[i].t = t

\* C10 as claimed: every yield() ends by returning, after its restore closure
\* (queued behind every handler that was queued at the call) has run.
C10_YieldReturns ==
    (last.fin /\ last.op = "yield") => (last.exc = "none" /\ ~RestoreQueued(last.t))

\* C10 amended: yield() ends only after its restore closure, and so every handler
\* queued before it, has run, whatever notifications arrive; it always ends
\* without an external notify; it ends by returning unless the context was
\* interrupted, and then by raising Interrupted.
C10_YieldEndsAfterQueue ==
    /\ []((last.fin /\ last.op = "yield") =>
            /\ ~RestoreQueued(last.t)
            /\ last.exc \in {"none", "interrupted"})
    /\ [][\A t \in Tasks :
            (last'.fin /\ last'.op = "yield" /\ last'.t = t) =>
               ((last'.exc = "interrupted") =
                   (last'.act = "resume" /\ interruption_requested(flags[t])))]_vars
    /\ \A t \in Tasks : []<>(pc[t] # "yield")

\* C10 witness: a yield() that was entered with a note pending returned after a
\* resume, its restore closure no longer queued.
C10_Witness ==
    /\ last.fin
    /\ last.op = "yield"
    /\ last.exc = "none"
    /\ last.act = "resume"
    /\ ~RestoreQueued(last.t)

\* ================================================================ context layer
\* ctx::context: a running context (the parent) constructs one handle, whose
\* child context runs an arbitrary function: it may wait and it returns; it
\* catches Interrupted and returns. Neither context holds a pending note.
\*   sp.flags   ctx::flags of the child         sp.c      context::c != nullptr
\*   sp.handle  none / live / gone              sp.child  none / posted / run / wait / woken / done
\*   sp.parent  run / ctor / wait / join        sp.cur    ircd::ctx::current: parent / child / none
\*   sp.ios     handlers queued on the io_service: spawn, child, parent
\*   sp.adj     child's adjoindre == parent     sp.freed  times the child's ctx was deleted
\*   sp.yielded the parent returned to the io_service since the constructor call

SpawnFlags == SUBSET {"POST", "DISPATCH", "DETACH"}

\* context::context: if(flags & POST) post; else if(flags & DISPATCH) dispatch; else spawn()
spawn_mode_mut(fl) ==
    IF "DISPATCH" \in fl THEN "dispatch" ELSE IF "POST" \in fl THEN "post" ELSE "direct"
spawn_mode(fl) ==
    IF "POST" \in fl THEN "post" ELSE IF "DISPATCH" \in fl THEN "dispatch" ELSE "direct"

\* the atexit unwind of ctx::operator(): notify(*adjoindre); yc = nullptr;
\* if(flags & DETACH) delete this
SpAtExit(s) ==
    [s EXCEPT !.child = "done",
              !.ios = IF s.adj THEN Append(@, "parent") ELSE @,
              !.freed = IF "DETACH" \in s.flags THEN @ + 1 ELSE @]

\* The child gives up control. Entered inside the constructor, control comes back
\* to it: `recurrent` reasserts current, then if(flags & DETACH) c.release().
SpBack(s) ==
    IF s.parent = "ctor"
    THEN [s EXCEPT !.cur = "parent", !.parent = "run", !.c = "DETACH" \notin s.flags]
    ELSE [s EXCEPT !.cur = "none"]

\* ctx::wake() on the child: the pending async_wait completes
SpWake(s) ==
    IF s.child = "wait" THEN [s EXCEPT !.child = "woken", !.ios = Append(@, "child")] ELSE s

SpawnStep(s) == sp' = s /\ UNCHANGED not_sp

\* context::context(name, stack_sz, flags, func) called by the parent
Construct(fl) ==
    /\ sp.cur = "parent" /\ sp.parent = "run" /\ sp.handle = "none"
    /\ LET s0 == [sp EXCEPT !.flags = fl, !.handle = "live", !.yielded = FALSE] IN
       IF spawn_mode(fl) = "post"
       THEN SpawnStep([s0 EXCEPT !.c = "DETACH" \notin fl, !.child = "posted",
                                 !.ios = Append(@, "spawn"), !.act = "construct"])
       ELSE SpawnStep([s0 EXCEPT !.c = TRUE, !.child = "run", !.cur = "child",
                                 !.parent = "ctor", !.act = "enter"])

\* The posted spawn closure runs: ctx::operator(). If the ctx was deleted while
\* the closure was queued, the closure works on a dangling pointer.
RunSpawnClosure ==
    /\ sp.cur = "none" /\ sp.ios # <<>> /\ Head(sp.ios) = "spawn"
    /\ LET s0 == [sp EXCEPT !.ios = Tail(@)]
           enter == [s0 EXCEPT !.child = "run", !.cur = "child", !.act = "enter"]
       IN IF sp.freed > 0
          THEN \/ SpawnStep([s0 EXCEPT !.child = "done", !.act = "skipped"])
               \/ SpawnStep(enter)
          ELSE IF interruption_requested(sp.flags)
               THEN SpawnStep([SpAtExit(s0) EXCEPT !.act = "skipped"])
               ELSE SpawnStep(enter)

\* the child's function calls this_ctx::wait()
ChildWait ==
    /\ sp.cur = "child" /\ sp.child = "run"
    /\ SpawnStep([SpBack(sp) EXCEPT !.child = "wait", !.act = "wait"])

\* the child's function returns
ChildReturn ==
    /\ sp.cur = "child" /\ sp.child = "run"
    /\ SpawnStep([SpBack(SpAtExit(sp)) EXCEPT !.act = "leave"])

\* The child's async_wait completion runs; at the interruption point of
\* ctx::wait() an interrupted child unwinds and its function returns.
RunChild ==
    /\ sp.cur = "none" /\ sp.ios # <<>> /\ Head(sp.ios) = "child"
    /\ LET s0 == [sp EXCEPT !.ios = Tail(@)] IN
       IF interruption_requested(sp.flags)
       THEN SpawnStep([SpAtExit([s0 EXCEPT !.flags = interruption_point_flags(@)])
                          EXCEPT !.act = "interrupted"])
       ELSE SpawnStep([s0 EXCEPT !.child = "run", !.cur = "child", !.act = "resume"])

\* the parent calls this_ctx::yield()
ParentYield ==
    /\ sp.cur = "parent" /\ sp.parent = "run"
    /\ SpawnStep([sp EXCEPT !.parent = "wait", !.cur = "none", !.yielded = TRUE,
                            !.ios = Append(@, "parent"), !.act = "yield"])

\* The parent resumes, from yield() or from the join() of ~context, which then
\* ends: the unique_ptr deletes the ctx.
RunParent ==
    /\ sp.cur = "none" /\ sp.ios # <<>> /\ Head(sp.ios) = "parent"
    /\ LET s0 == [sp EXCEPT !.ios = Tail(@), !.cur = "parent", !.parent = "run"] IN
       IF sp.parent = "join"
       THEN SpawnStep([s0 EXCEPT !.c = FALSE, !.handle = "gone", !.freed = @ + 1,
                                 !.act = "destroyed"])
       ELSE SpawnStep([s0 EXCEPT !.act = "resumed"])

\* notify(ctx) on the waiting child
NotifyChild ==
    /\ sp.cur = "parent" /\ sp.parent = "run" /\ sp.child = "wait"
    /\ SpawnStep([SpWake(sp) EXCEPT !.act = "notify"])

\* interrupt(ctx) on the child, through the handle or the pointer detach() gave
InterruptChild ==
    /\ sp.cur = "parent" /\ sp.parent = "run"
    /\ sp.child \in {"posted", "wait", "woken"}
    /\ SpawnStep([SpWake(sp) EXCEPT !.flags = interrupt_flags(@), !.act = "interrupt"])

\* context::detach(): c->flags |= DETACH; return c.release()
Detach ==
    /\ sp.cur = "parent" /\ sp.parent = "run" /\ sp.handle = "live" /\ sp.c
    /\ SpawnStep([sp EXCEPT !.flags = @ \cup {"DETACH"}, !.c = FALSE, !.act = "detach"])

\* context::~context() run by the parent: if(!c) return; interrupt(); join();
\* then the unique_ptr deletes the ctx. joined() holds when yc == nullptr.
DestroyHandle ==
    /\ sp.cur = "parent" /\ sp.parent = "run" /\ sp.handle = "live"
    /\ IF ~sp.c
       THEN SpawnStep([sp EXCEPT !.handle = "gone", !.act = "dropped"])
       ELSE LET s1 == [SpWake(sp) EXCEPT !.flags = interrupt_flags(@)] IN
            IF sp.child \in {"posted", "done"}
            THEN SpawnStep([s1 EXCEPT !.c = FALSE, !.handle = "gone", !.freed = @ + 1,
                                      !.act = "destroyed"])
            ELSE SpawnStep([s1 EXCEPT !.adj = TRUE, !.parent = "join", !.cur = "none",
                                      !.yielded = TRUE, !.act = "joining"])

SpawnNext ==
    \/ \E fl \in SpawnFlags : Construct(fl)
    \/ RunSpawnClosure
    \/ ChildWait
    \/ ChildReturn
    \/ RunChild
    \/ ParentYield
    \/ RunParent
    \/ NotifyChild
    \/ InterruptChild
    \/ Detach
    \/ DestroyHandle

SpawnSpec == Init /\ [][SpawnNext]_<<vars, others>>

\* C11: the function of a context constructed with POST begins only in a handler
\* run by the io_service after the parent has returned to it, never inside the
\* constructor call, whether or not DISPATCH is set as well.
C11_PostRunsAfterYield ==
    /\ [][(sp'.act = "enter" /\ "POST" \in sp'.flags) =>
             /\ sp.cur = "none"
             /\ sp.yielded
             /\ sp'.parent # "ctor"]_sp
    /\ []("POST" \in sp.flags => sp.parent # "ctor")

\* C11 witness: a child constructed with POST and DISPATCH has just entered its
\* function, from the io_service, while the parent is suspended in yield().
C11_Witness ==
    /\ sp.act = "enter"
    /\ {"POST", "DISPATCH"} \subseteq sp.flags
    /\ sp.cur = "child"
    /\ sp.parent = "wait"

\* C12 as claimed: once a context is detached (DETACH at construction, or
\* detach() later) its handle holds no task and its state has been freed exactly
\* once if its function has returned or was skipped, and not at all before.
C12_DetachedFreedOnce ==
    ("DETACH" \in sp.flags /\ sp.parent # "ctor") =>
        /\ ~sp.c
        /\ sp.freed = (IF sp.child = "done" THEN 1 ELSE 0)

--------------------------------------------------------------------------
\* pool layer: ctx::pool, its worker contexts and the context using the pool

\* the sequence f without the element x
RECURSIVE PoolWithout(_, _)
PoolWithout(f, x) ==
    IF f = <<>> THEN <<>>
    ELSE IF Head(f) = x THEN PoolWithout(Tail(f), x)
    ELSE <<Head(f)>> \o PoolWithout(Tail(f), x)

\* queue.push_back(closure)
pool_push_mut(q, c) == <<c>> \o q
pool_push(q, c) == Append(q, c)

\* ctx::wake(): cancel the alarm; a pending async_wait completes on the strand
PWake(p, x) ==
    IF p.ctx[x].pend
    THEN [p EXCEPT !.ctx[x].pend = FALSE,
                   !.ios = Append(@, [k |-> "resume", t |-> x])]
    ELSE p

\* ctx::note() through notify(ctx &)
PNotify(p, x) ==
    LET q == [p EXCEPT !.ctx[x].notes = @ + 1]
    IN  IF note(p.ctx[x].notes) THEN PWake(q, x) ELSE q

\* ctx::interrupt(): set the flag, then wake()
PInterrupt(p, x) == PWake([p EXCEPT !.ctx[x].flags = interrupt_flags(@)], x)

\* ctx::wait() reaching its suspension: the notes are used up, the alarm waits
PSuspend(p, x, st) ==
    [p EXCEPT !.ctx[x].notes = 0, !.ctx[x].pend = TRUE, !.ctx[x].st = st,
              !.cur = NoCtx]

\* context::joined(): the context is not running on any stack
pool_joined(p, w) == p.ctx[w].st \in {"posted", "done", "lost"}

\* dock::notify_one(): a context waiting in the dock, if any, is notified
PDockNotifyOne(p) ==
    IF p.dock = <<>> THEN {p} ELSE {PNotify(p, Head(p.dock))}

\* pool::next() past dock.wait(): --available, take queue.front(), call it
PTake(p, w) ==
    [p EXCEPT !.dock = PoolWithout(@, w),
              !.available = @ - 1,
              !.queue = Tail(@),
              !.started = Append(@, Head(p.queue)),
              !.by = Append(@, w),
              !.ctx[w].st = "exec",
              !.cur = w,
              !.act = "take"]

\* interrupted leaves pool::main(): both unwinds run, then ctx::operator()'s
\* atexit notifies the joiner and clears current
PFinish(p, w) ==
    LET idle == p.ctx[w].st \in {"top", "dock"}
        q == [p EXCEPT !.dock = PoolWithout(@, w),
                       !.available = IF idle THEN @ - 1 ELSE @,
                       !.ctx[w].st = "done",
                       !.ctx[w].flags = interruption_point_flags(@),
                       !.cur = NoCtx,
                       !.act = "finish"]
    IN  IF p.ctx[w].adj THEN PNotify(q, PoolUser) ELSE q

\* the loop of pool::interrupt() over the first n handles of ctxs
RECURSIVE PInterruptAll(_, _)
PInterruptAll(p, n) ==
    IF n = 0 THEN p ELSE PInterrupt(PInterruptAll(p, n - 1), p.ctxs[n])

PoolStep(p) == pool' = p /\ UNCHANGED not_pool

\* the spawn closure posted by the context constructor runs ctx::operator()
PoolRunSpawn(w) ==
    /\ pool.cur = NoCtx
    /\ pool.ios # <<>>
    /\ Head(pool.ios) = [k |-> "spawn", t |-> w]
    /\ LET p == [pool EXCEPT !.ios = Tail(@)]
       IN  \/ /\ w \in pool.freed          \* the ctx was deleted: the handler is lost
              /\ PoolStep([p EXCEPT !.ctx[w].st = "lost", !.act = "lost"])
           \/ /\ interruption_requested(pool.ctx[w].flags)
              /\ PoolStep(PFinish([p EXCEPT !.ctx[w].st = "skipped"], w))
           \/ /\ ~interruption_requested(pool.ctx[w].flags)
              /\ PoolStep([p EXCEPT !.ctx[w].st = "top", !.ctx[w].notes = 1,
                                    !.available = @ + 1, !.cur = w,
                                    !.act = "enter"])

\* pool::next() from the top of main()'s loop
PoolWorkerNext(w) ==
    /\ pool.cur = w
    /\ pool.ctx[w].st = "top"
    /\ IF pool.queue # <<>>
       THEN PoolStep(PTake(pool, w))
       ELSE PoolStep(PSuspend([pool EXCEPT !.dock = Append(@, w), !.act = "dock"],
                              w, "dock"))

\* the closure returns to pool::next()
PoolJobReturn(w) ==
    /\ pool.cur = w
    /\ pool.ctx[w].st = "exec"
    /\ PoolStep([pool EXCEPT !.ctx[w].st = "top", !.available = @ + 1,
                             !.act = "return"])

\* what pool::next() and pool::main() catch of a closure's exception:
\* catch(const interrupted &) rethrows through main(), which ends the worker;
\* catch(const std::exception &) logs and returns to main()'s loop; anything
\* else passes both and leaves ctx::operator(), which is noexcept
ThrowKinds == {"interrupted", "std::exception", "other"}

pool_catch(kind) ==
    CASE kind = "interrupted" -> "finish"
      [] kind = "std::exception" -> "continue"
      [] OTHER -> "terminate"

\* the closure throws
PoolJobThrow(w) ==
    /\ pool.cur = w
    /\ pool.ctx[w].st = "exec"
    /\ \E kind \in ThrowKinds :
          LET p == [pool EXCEPT !.who = w]
          IN  CASE pool_catch(kind) = "finish" ->
                     PoolStep([PFinish(p, w) EXCEPT !.act = "interrupted"])
                [] pool_catch(kind) = "continue" ->
                     PoolStep([p EXCEPT !.ctx[w].st = "top", !.available = @ + 1,
                                        !.act = "threw"])
                [] OTHER ->
                     PoolStep([p EXCEPT !.ctx[w].st = "done", !.cur = NoProcess,
                                        !.ios = <<>>, !.act = "threw"])

\* pool::interrupt(): context.interrupt() on every worker
PoolInterrupt ==
    /\ pool.cur = PoolUser
    /\ pool.ctx[PoolUser].st = "run"
    /\ pool.ctxs # <<>>
    /\ PoolStep([PInterruptAll(pool, Len(pool.ctxs)) EXCEPT !.act = "interrupt"])

\* the closure calls this_ctx::wait()
PoolJobWait(w) ==
    /\ pool.cur = w
    /\ pool.ctx[w].st = "exec"
    /\ IF wait_returns(pool.ctx[w].notes)
       THEN PoolStep([pool EXCEPT !.ctx[w].notes = @ - 1, !.act = "nowait"])
       ELSE PoolStep(PSuspend([pool EXCEPT !.act = "jobwait"], w, "job"))

\* what the closure waits for happens: notify(worker)
PoolJobNotify(w) ==
    /\ pool.cur = NoCtx
    /\ pool.ctx[w].st = "job"
    /\ pool.ctx[w].notes = 0
    /\ PoolStep(PNotify([pool EXCEPT !.act = "ionotify"], w))

\* a worker's continuation resumes inside ctx::wait()
PoolResumeWorker(w) ==
    /\ pool.cur = NoCtx
    /\ pool.ios # <<>>
    /\ Head(pool.ios) = [k |-> "resume", t |-> w]
    /\ LET p == [pool EXCEPT !.ios = Tail(@), !.ctx[w].notes = continuation_notes(@)]
       IN  \/ /\ w \in pool.freed          \* the ctx was deleted: the handler is lost
              /\ PoolStep([p EXCEPT !.ctx[w].st = "lost", !.act = "lost",
                                    !.dock = PoolWithout(@, w)])
           \/ /\ interruption_requested(pool.ctx[w].flags)
              /\ PoolStep(PFinish(p, w))
           \/ /\ ~interruption_requested(pool.ctx[w].flags)
              /\ IF pool.ctx[w].st = "job"
                 THEN PoolStep([p EXCEPT !.ctx[w].st = "exec", !.cur = w,
                                         !.act = "resume"])
                 ELSE IF pool.queue # <<>>
                 THEN PoolStep(PTake(p, w))
                 ELSE PoolStep(PSuspend([p EXCEPT !.act = "dock"], w, "dock"))

\* the pool's user resumes inside ctx::wait(); a wait made by context::join()
\* ends ~context(), and pool::del() has popped that handle
PoolResumeUser ==
    /\ pool.cur = NoCtx
    /\ pool.ios # <<>>
    /\ Head(pool.ios) = [k |-> "resume", t |-> PoolUser]
    /\ LET p == [pool EXCEPT !.ios = Tail(@),
                             !.ctx[PoolUser].notes = continuation_notes(@),
                             !.cur = PoolUser, !.act = "resume"]
           w == pool.ctxs[Len(pool.ctxs)]
       IN  IF pool.ctx[PoolUser].st = "joinwait"
           THEN PoolStep([p EXCEPT !.ctx[PoolUser].st = "join",
                                   !.ctxs = SubSeq(@, 1, Len(@) - 1),
                                   !.freed = @ \cup {w}])
           ELSE PoolStep([p EXCEPT !.ctx[PoolUser].st = "run"])

\* pool::operator()(closure)
PoolSubmit ==
    /\ pool.cur = PoolUser
    /\ pool.ctx[PoolUser].st = "run"
    /\ pool.nsub < MaxSubmit
    /\ \E p \in PDockNotifyOne([pool EXCEPT !.queue = pool_push(@, pool.nsub + 1),
                                            !.nsub = @ + 1,
                                            !.act = "submit"]) :
          PoolStep(p)

\* this_ctx::yield() by the pool's user
PoolUserYield ==
    /\ pool.cur = PoolUser
    /\ pool.ctx[PoolUser].st = "run"
    /\ PoolStep([pool EXCEPT !.ctx[PoolUser].st = "wait",
                             !.ctx[PoolUser].notes = 0,
                             !.cur = NoCtx,
                             !.ios = Append(@, [k |-> "resume", t |-> PoolUser]),
                             !.act = "yield"])

\* notify(cur()) by the pool's user: a note taken while running
PoolUserNote ==
    /\ pool.cur = PoolUser
    /\ pool.ctx[PoolUser].st = "run"
    /\ pool.ctx[PoolUser].notes <= MaxPending
    /\ PoolStep(PNotify([pool EXCEPT !.act = "note"], PoolUser))

\* pool::join(): del(size())
PoolJoin ==
    /\ pool.cur = PoolUser
    /\ pool.ctx[PoolUser].st = "run"
    /\ pool.ctxs # <<>>
    /\ PoolStep([pool EXCEPT !.ctx[PoolUser].st = "join", !.act = "join"])

\* one turn of pool::del()'s loop: ctxs.pop_back() runs ~context() on the last
\* worker, interrupt() then join(); the loop's end is pool::join()'s return
PoolDel ==
    /\ pool.cur = PoolUser
    /\ pool.ctx[PoolUser].st = "join"
    /\ IF pool.ctxs = <<>>
       THEN PoolStep([pool EXCEPT !.ctx[PoolUser].st = "run", !.act = "joined"])
       ELSE LET w == pool.ctxs[Len(pool.ctxs)]
                p == PInterrupt([pool EXCEPT !.act = "del"], w)
                gone == [p EXCEPT !.ctxs = SubSeq(@, 1, Len(@) - 1),
                                  !.freed = @ \cup {w}]
            IN  IF pool_joined(p, w)
                THEN PoolStep(gone)
                ELSE IF wait_returns(p.ctx[PoolUser].notes)
                THEN PoolStep([gone EXCEPT !.ctx[w].adj = TRUE,
                                           !.ctx[PoolUser].notes = @ - 1])
                ELSE PoolStep(PSuspend([p EXCEPT !.ctx[w].adj = TRUE],
                                       PoolUser, "joinwait"))

PoolNext ==
    \/ \E w \in PoolWorkers : PoolRunSpawn(w)
    \/ \E w \in PoolWorkers : PoolWorkerNext(w)
    \/ \E w \in PoolWorkers : PoolJobReturn(w)
    \/ \E w \in PoolWorkers : PoolJobWait(w)
    \/ \E w \in PoolWorkers : PoolJobNotify(w)
    \/ \E w \in PoolWorkers : PoolResumeWorker(w)
    \/ PoolResumeUser
    \/ PoolSubmit
    \/ PoolUserYield
    \/ PoolUserNote
    \/ PoolJoin
    \/ PoolDel
    \/ \E w \in PoolWorkers : PoolJobThrow(w)
    \/ PoolInterrupt

PoolSpec == Init /\ [][PoolNext]_<<vars, others>>

\* C13: closures begin execution in the order they were submitted, and each
\* submitted closure is either still queued once or was taken by one worker
\* and begun once, never both and never twice.
C13_PoolFifoOnce ==
    /\ pool.started \o pool.queue = [i \in 1..pool.nsub |-> i]
    /\ Len(pool.by) = Len(pool.started)

\* C13 witness: two closures were queued together and taken by two workers.
C13_Witness ==
    /\ pool.started = <<1, 2>>
    /\ pool.by = <<1, 2>>
    /\ pool.ctx[1].st = "job"
    /\ pool.ctx[2].st = "exec"

\* C14: when pool::join() returns the pool holds no worker, no former worker
\* is still inside pool::main() (idle, executing or suspended in a closure),
\* and available is zero.
C14_JoinLeavesNoWorker ==
    pool.act = "joined" =>
        /\ pool.ctxs = <<>>
        /\ \A w \in PoolWorkers : pool.ctx[w].st \in {"posted", "done"}
        /\ pool.available = 0

--------------------------------------------------------------------------
\* offload layer: ctx::ole.  A call of offload() is a frame, numbered in call
\* order; frame 0 is no call.  done, eptr, context and kick live in the frame
\* and the queued closure holds references to them.

\* ctx::wake() of the offloading context
OWake(o) ==
    IF o.pend THEN [o EXCEPT !.pend = FALSE, !.ios = Append(@, [k |-> "resume", f |-> 0])]
    ELSE o

\* notify(*context)
ONotify(o) ==
    LET q == [o EXCEPT !.notes = @ + 1]
    IN  IF note(o.notes) THEN OWake(q) ELSE q

\* do { wait(); } while(!done): a wait() that suspends
OSuspend(o) == [o EXCEPT !.notes = 0, !.pend = TRUE, !.st = "wait"]

\* while(!done) as the loop reads it after wait() returned
offload_done(d) == d

OleStep(o) == ole' = o /\ UNCHANGED not_ole

\* ole::offload(func) up to the first wait() that suspends
OleOffload ==
    /\ ole.dtor # "joining"
    /\ ole.st = "run"
    /\ ole.calls < MaxOffload
    /\ LET f == ole.calls + 1
       IN  OleStep(OSuspend([ole EXCEPT !.calls = f, !.frame = f, !.done = FALSE,
                                        !.queue = Append(@, f), !.act = "offload"]))

\* ole::worker(): func = pop(); the closure starts running its func()
OleWorkerPop ==
    /\ ole.worker = "alive"
    /\ ole.thread = 0
    /\ ole.queue # <<>>
    /\ LET f == Head(ole.queue)
       IN  OleStep([ole EXCEPT !.queue = Tail(@), !.thread = f,
                               !.execs[f] = @ + 1, !.act = "pop"])

\* func() completes on the offload thread; signal(*context, kick) posts kick.
\* The closure of a frame that has ended reads context and kick through
\* dangling references: the post may happen or be lost.
OleWorkerDone ==
    /\ ole.thread # 0
    /\ LET f == ole.thread
           o == [ole EXCEPT !.thread = 0, !.completed = @ \cup {f}, !.act = "func"]
       IN  \/ OleStep([o EXCEPT !.ios = Append(@, [k |-> "kick", f |-> f])])
           \/ /\ ole.frame # f
              /\ OleStep(o)

\* kick runs on the context's strand: done = true; notify(*context).  The
\* kick of a frame that has ended writes through dangling references: the
\* write is lost, or it lands in the frame of the offload() now in progress.
OleKick ==
    /\ ole.dtor # "joining"
    /\ ole.st = "wait"
    /\ ole.ios # <<>>
    /\ Head(ole.ios).k = "kick"
    /\ LET f == Head(ole.ios).f
           o == [ole EXCEPT !.ios = Tail(@), !.kicked = @ \cup {f}, !.act = "kick"]
       IN  \/ /\ ole.frame = f
              /\ OleStep(ONotify([o EXCEPT !.done = TRUE]))
           \/ /\ ole.frame # f
              /\ \/ OleStep(o)
                 \/ OleStep(ONotify(o))
                 \/ /\ ole.frame # 0
                    /\ OleStep(ONotify([o EXCEPT !.done = TRUE]))

\* the context resumes inside wait(): interruption point, then while(!done)
OleResume ==
    /\ ole.dtor # "joining"
    /\ ole.st = "wait"
    /\ ole.ios # <<>>
    /\ Head(ole.ios).k = "resume"
    /\ LET o == [ole EXCEPT !.ios = Tail(@), !.notes = continuation_notes(@)]
       IN  IF interruption_requested(ole.flags)
           THEN OleStep([o EXCEPT !.flags = interruption_point_flags(@),
                                  !.st = "run", !.ret = ole.frame, !.frame = 0,
                                  !.act = "interrupted"])
           ELSE IF offload_done(ole.done)
           THEN OleStep([o EXCEPT !.st = "run", !.ret = ole.frame, !.frame = 0,
                                  !.act = "returned"])
           ELSE OleStep(OSuspend([o EXCEPT !.act = "rewait"]))

\* notify(ctx) from another source while the context waits in offload()
OleNotify ==
    /\ ole.dtor # "joining"
    /\ ole.st = "wait"
    /\ ole.notes < MaxPending
    /\ OleStep(ONotify([ole EXCEPT !.act = "notify"]))

\* interrupt(ctx) while the context waits in offload()
OleInterrupt ==
    /\ ole.dtor # "joining"
    /\ ole.st = "wait"
    /\ ~interruption_requested(ole.flags)
    /\ OleStep(OWake([ole EXCEPT !.flags = interrupt_flags(@), !.act = "interrupt"]))

\* the predicate of cond.wait in pop(): if(!queue.empty()) return true;
\* if(interruption) throw interrupted();   (TRUE: it throws)
pop_throws_mut(q, intr) == intr
pop_throws(q, intr) == q = <<>> /\ intr

\* ole::init::~init() up to thread->join(): interruption = true under the
\* mutex, cond.notify_one(); the calling thread then blocks in join(), and with
\* it the io_service and every context
OleInitDtor ==
    /\ ole.dtor = "none"
    /\ OleStep([ole EXCEPT !.interruption = TRUE, !.dtor = "joining",
                           !.left = {ole.queue[i] : i \in 1..Len(ole.queue)},
                           !.act = "dtor"])

\* pop() on the offload thread with the queue empty: the predicate of
\* cond.wait throws interrupted once interruption is set, and worker() returns
OleWorkerExit ==
    /\ ole.worker = "alive"
    /\ ole.thread = 0
    /\ pop_throws(ole.queue, ole.interruption)
    /\ OleStep([ole EXCEPT !.worker = "exited", !.act = "exit"])

\* thread->join() returns: delete thread; thread = nullptr
OleInitJoined ==
    /\ ole.dtor = "joining"
    /\ ole.worker = "exited"
    /\ OleStep([ole EXCEPT !.dtor = "returned", !.act = "joined"])

OleNext ==
    \/ OleInitDtor
    \/ OleWorkerExit
    \/ OleInitJoined
    \/ OleOffload
    \/ OleWorkerPop
    \/ OleWorkerDone
    \/ OleKick
    \/ OleResume
    \/ OleNotify
    \/ OleInterrupt

OleSpec == Init /\ [][OleNext]_<<vars, others>>

\* C15: when offload(func) returns, func has run exactly once on the offload
\* thread, has completed, and its completion was delivered on the strand.
C15_OffloadReturnsAfterFunc ==
    ole.act = "returned" =>
        /\ ole.execs[ole.ret] = 1
        /\ ole.ret \in ole.completed
        /\ ole.ret \in ole.kicked

--------------------------------------------------------------------------
\* view layer: ctx::view<T>, one producer and the consumers.  The states of a
\* context: "out" (not in the view), "pre" (wait()'s first loop, in q.wait()),
\* "waiting" (wait()'s second loop, in q.wait(), counted in waiting),
\* "locking" / "prelock" (in lock.lock() of the second / first loop),
\* "viewing" (wait() returned *t, lock held, running), "held" (the same,
\* suspended), "nwait" (notify() in q.wait(pred)), "nlock" (notify() in
\* lock_guard).

VWake(v, x) ==
    IF v.ctx[x].pend
    THEN [v EXCEPT !.ctx[x].pend = FALSE, !.ios = Append(@, x)]
    ELSE v

VNotifyCtx(v, x) ==
    LET w == [v EXCEPT !.ctx[x].notes = @ + 1]
    IN  IF note(v.ctx[x].notes) THEN VWake(w, x) ELSE w

\* dock::notify_all(): every context in the dock is notified
RECURSIVE VNotifyAll(_, _)
VNotifyAll(v, waiters) ==
    IF waiters = <<>> THEN v
    ELSE VNotifyAll(VNotifyCtx(v, Head(waiters)), Tail(waiters))

\* dock::wait(): join the dock and suspend in ctx::wait()
VDockWait(v, x, st) ==
    [v EXCEPT !.q = IF x \in {@[i] : i \in 1..Len(@)} THEN @ ELSE Append(@, x),
              !.ctx[x].notes = 0, !.ctx[x].pend = TRUE, !.ctx[x].st = st,
              !.cur = NoCtx]

\* mutex::lock() finding the mutex held: suspend until an unlock notifies
VMutexWait(v, x, st) ==
    [v EXCEPT !.mq = Append(@, x),
              !.ctx[x].notes = 0, !.ctx[x].pend = TRUE, !.ctx[x].st = st,
              !.cur = NoCtx]

\* mutex::unlock(): release, and notify the first context waiting to lock
VUnlock(v) ==
    LET w == [v EXCEPT !.owner = NoCtx]
    IN  IF v.mq = <<>> THEN w
        ELSE VNotifyCtx([w EXCEPT !.mq = Tail(@)], Head(v.mq))

\* view::ready(): t != nullptr.  t is 0 for nullptr, or the number of the
\* notify() call whose object it points to
view_ready(v) == v.t # 0

\* wait()'s unwind: --waiting; q.notify_all()
VUnwind(v) ==
    LET w == [v EXCEPT !.waiting = @ - 1] IN VNotifyAll(w, w.q)

\* wait() from the head of its second loop, lock held: for(++waiting; ...)
VSecondLoop(v, c) ==
    LET w == [v EXCEPT !.waiting = @ + 1]
    IN  VDockWait(VUnlock(w), c, "waiting")

\* wait() with the lock held in its first loop
VFirstLoop_mut(v, c) == VSecondLoop(v, c)
VFirstLoop(v, c) ==
    IF view_ready(v)
    THEN VDockWait(VUnlock([v EXCEPT !.back = @ \cup {c}]), c, "pre")
    ELSE VSecondLoop(v, c)

\* wait() with the lock held after q.wait() in its second loop
VSecondTest(v, c) ==
    IF ~view_ready(v) THEN VDockWait(VUnlock(v), c, "waiting")
    ELSE VUnwind([v EXCEPT !.ctx[c].st = "viewing", !.cur = c,
                           !.got = @ \cup {c}, !.act = "view",
                           !.seen[c] = @ \cup {v.t},
                           !.dup = @ \/ v.t \in v.seen[c]])

\* notify() past q.wait(pred) with the lock_guard taken: clear, notify_all
VClear(v) ==
    LET w == [v EXCEPT !.t = 0]
    IN  VUnlock([VNotifyAll(w, w.q) EXCEPT !.ctx[ViewProducer].st = "out",
                                           !.cur = NoCtx, !.act = "returned"])

ViewStep(v) == view' = v /\ UNCHANGED not_view

\* a consumer takes the unique_lock and calls view::wait(lock)
ViewWait(c) ==
    /\ view.cur = NoCtx
    /\ view.ctx[c].st = "out"
    /\ view.owner = NoCtx
    /\ ViewStep(VFirstLoop([view EXCEPT !.owner = c, !.act = "wait"], c))

\* a consumer's continuation resumes in q.wait() or in lock.lock()
ViewResumeConsumer(c) ==
    /\ view.cur = NoCtx
    /\ view.ios # <<>>
    /\ Head(view.ios) = c
    /\ LET st == view.ctx[c].st
           v == [view EXCEPT !.ios = Tail(@), !.ctx[c].notes = continuation_notes(@),
                             !.q = SelectSeq(@, LAMBDA x : x # c),
                             !.act = "resume"]
           gone == [v EXCEPT !.ctx[c].flags = interruption_point_flags(@),
                             !.ctx[c].st = "out", !.atcall = @ \ {c},
                             !.act = "interrupted"]
           locked == [v EXCEPT !.owner = c]
       IN  IF interruption_requested(view.ctx[c].flags)
           THEN IF st \in {"waiting", "locking"}
                THEN ViewStep(VUnwind(gone))
                ELSE IF st = "held"
                THEN ViewStep(VUnlock(gone))
                ELSE ViewStep(gone)
           ELSE IF st = "held"
           THEN ViewStep([v EXCEPT !.ctx[c].st = "viewing", !.cur = c])
           ELSE IF view.owner # NoCtx
           THEN ViewStep(VMutexWait(v, c, IF st \in {"pre", "prelock"} THEN "prelock"
                                          ELSE "locking"))
           ELSE IF st \in {"pre", "prelock"}
           THEN ViewStep(VFirstLoop(locked, c))
           ELSE ViewStep(VSecondTest(locked, c))

\* a consumer is done with its view: the unique_lock is released
ViewRelease(c) ==
    /\ view.cur = c
    /\ view.ctx[c].st = "viewing"
    /\ ViewStep(VUnlock([view EXCEPT !.ctx[c].st = "out", !.cur = NoCtx,
                                     !.act = "release"]))

\* a consumer suspends while it examines the viewed object (this_ctx::yield())
ViewExamine(c) ==
    /\ view.cur = c
    /\ view.ctx[c].st = "viewing"
    /\ ViewStep([view EXCEPT !.ctx[c].st = "held", !.ctx[c].notes = 0,
                             !.ios = Append(@, c), !.cur = NoCtx,
                             !.act = "examine"])

\* view::notify(t) up to q.wait(pred)
ViewNotify ==
    /\ view.cur = NoCtx
    /\ view.ctx[ViewProducer].st = "out"
    /\ view.n < MaxNotify
    /\ IF view.waiting = 0
       THEN ViewStep([view EXCEPT !.act = "nowaiters", !.atcall = {}, !.got = {},
                                  !.n = @ + 1])
       ELSE LET v == [view EXCEPT !.t = view.n + 1, !.n = @ + 1,
                          !.got = {}, !.act = "notify",
                          !.atcall = {c \in ViewConsumers :
                                         view.ctx[c].st \in {"waiting", "locking"}}]
            IN  ViewStep(VDockWait(VNotifyAll(v, v.q), ViewProducer, "nwait"))

\* the producer resumes in q.wait(pred) or in the lock_guard's lock()
ViewResumeProducer ==
    /\ view.cur = NoCtx
    /\ view.ios # <<>>
    /\ Head(view.ios) = ViewProducer
    /\ LET v == [view EXCEPT !.ios = Tail(@),
                             !.ctx[ViewProducer].notes = continuation_notes(@),
                             !.q = SelectSeq(@, LAMBDA x : x # ViewProducer),
                             !.act = "resume"]
       IN  IF interruption_requested(view.ctx[ViewProducer].flags)
           THEN ViewStep([v EXCEPT !.ctx[ViewProducer].flags = interruption_point_flags(@),
                                   !.ctx[ViewProducer].st = "out",
                                   !.act = "raised"])
           ELSE IF view.ctx[ViewProducer].st = "nwait" /\ view.waiting # 0
           THEN ViewStep(VDockWait(v, ViewProducer, "nwait"))
           ELSE IF view.owner # NoCtx
           THEN ViewStep(VMutexWait(v, ViewProducer, "nlock"))
           ELSE ViewStep(VClear(v))

\* interrupt(ctx) of a context suspended inside the view
ViewInterrupt(x) ==
    /\ view.cur = NoCtx
    /\ view.ctx[x].st \notin {"out", "viewing"}
    /\ ~interruption_requested(view.ctx[x].flags)
    /\ ViewStep(VWake([view EXCEPT !.ctx[x].flags = interrupt_flags(@),
                                   !.act = "interrupt"], x))

ViewNext ==
    \/ \E c \in ViewConsumers : ViewWait(c)
    \/ \E c \in ViewConsumers : ViewResumeConsumer(c)
    \/ \E c \in ViewConsumers : ViewRelease(c)
    \/ \E c \in ViewConsumers : ViewExamine(c)
    \/ ViewNotify
    \/ ViewResumeProducer
    \/ \E x \in ViewCtxs : ViewInterrupt(x)

ViewSpec == Init /\ [][ViewNext]_<<vars, others>>

\* C16: the producer does not leave notify(t), and the viewed pointer stays
\* set, until every consumer that was waiting at the call has received t
\* from wait() and released its unique_lock.
C16_ProducerBlockedUntilReleased ==
    /\ view.act \in {"returned", "raised"} =>
          \A c \in view.atcall : c \in view.got /\ view.owner # c
    /\ \A c \in ViewConsumers : view.ctx[c].st \in {"viewing", "held"} => view_ready(view)

--------------------------------------------------------------------------
\* event layer: m::event::conforms and m::event_id.  Identifiers, host names
\* and membership values are sequences of characters; an absent field is the
\* empty value of its type.

HostA == <<"a">>
HostB == <<"b">>
HostBad == <<"a", " ">>   \* not a host name: it holds a space
my_host == HostA          \* the host name of this server

EventA1 == <<"$", "1", ":", "a">>
EventB1 == <<"$", "1", ":", "b">>
EventA2 == <<"$", "2", ":", "a">>
RoomA == <<"!", "r", ":", "a">>
UserA == <<"@", "u", ":", "a">>
UserB == <<"@", "u", ":", "b">>
MemberJoin == <<"j", "o", "i", "n">>
MemberJoinCap == <<"J", "o", "i", "n">>

\* position of the first ':' of an identifier, 0 when it has none
ColonAt(id) ==
    IF \E i \in 1..Len(id) : id[i] = ":"
    THEN CHOOSE i \in 1..Len(id) : id[i] = ":" /\ \A j \in 1..(i - 1) : id[j] # ":"
    ELSE 0

\* m::id::host(): what follows the first ':'
id_host(id) ==
    IF ColonAt(id) = 0 THEN <<>> ELSE SubSeq(id, ColonAt(id) + 1, Len(id))

\* m::valid(sigil, id): sigil, non-empty localpart, ':', non-empty host
id_valid(sigil, id) ==
    /\ Len(id) > 0
    /\ id[1] = sigil
    /\ ColonAt(id) > 2
    /\ id_host(id) # <<>>

\* all_of<std::islower>(str)
all_islower(str) ==
    \A i \in 1..Len(str) : str[i] \in {"j", "o", "i", "n"}

\* origin != id.host()
origin_mismatch_mut(origin, host) == origin = host
origin_mismatch(origin, host) == origin # host

\* a string with a character no host name holds
malformed(str) == \E i \in 1..Len(str) : str[i] = " "

\* //TODO: XXX  if(false) set(INVALID_ORIGIN);
invalid_origin_mut(origin) == malformed(origin)
invalid_origin(origin) == FALSE

\* json::get<"depth"_>(e) < 0
depth_negative_mut(depth) == depth < -1
depth_negative(depth) == depth < 0

\* the nested loops over prev_events / prev_state: if(i != j++) if(pe_.at(0) == pe.at(0))
prev_dup(refs) == \E i, j \in 1..Len(refs) : i # j /\ refs[i] = refs[j]

\* if(unquote(pe.at(0)) == json::get<"event_id"_>(e))
prev_self(refs, id) == \E i \in 1..Len(refs) : refs[i] = id

\* event::conforms::conforms(const event &e): the codes set in report
conforms(e) ==
    LET bad_event_id == ~id_valid("$", e.event_id)
        bad_sender == ~id_valid("@", e.sender)
        create == e.type = "m.room.create"
        member == e.type = "m.room.member"
    IN  {c \in {"INVALID_OR_MISSING_EVENT_ID"} : bad_event_id}
        \cup {c \in {"INVALID_OR_MISSING_ROOM_ID"} : ~id_valid("!", e.room_id)}
        \cup {c \in {"INVALID_OR_MISSING_SENDER_ID"} : bad_sender}
        \cup {c \in {"MISSING_TYPE"} : e.type = ""}
        \cup {c \in {"MISSING_ORIGIN"} : e.origin = <<>>}
        \cup {c \in {"INVALID_ORIGIN"} : invalid_origin(e.origin)}
        \cup {c \in {"MISSING_SIGNATURES"} : e.signatures = {}}
        \cup {c \in {"MISSING_ORIGIN_SIGNATURE"} : e.origin \notin e.signatures}
        \cup {c \in {"MISMATCH_ORIGIN_SENDER"} :
                ~bad_sender /\ origin_mismatch(e.origin, id_host(e.sender))}
        \cup {c \in {"MISMATCH_ORIGIN_EVENT_ID"} :
                ~bad_event_id /\ origin_mismatch(e.origin, id_host(e.event_id))}
        \cup {c \in {"INVALID_OR_MISSING_REDACTS_ID"} :
                e.type = "m.room.redaction" /\ ~id_valid("$", e.redacts)}
        \cup {c \in {"SELF_REDACTS"} : e.redacts # <<>> /\ e.redacts = e.event_id}
        \cup {c \in {"MISSING_MEMBERSHIP"} : member /\ e.membership = <<>>}
        \cup {c \in {"INVALID_MEMBERSHIP"} : member /\ ~all_islower(e.membership)}
        \cup {c \in {"MISSING_CONTENT_MEMBERSHIP"} :
                member /\ e.content_membership = <<>>}
        \cup {c \in {"INVALID_CONTENT_MEMBERSHIP"} :
                member /\ ~all_islower(e.content_membership)}
        \cup {c \in {"MISSING_PREV_EVENTS"} : ~create /\ e.prev_events = <<>>}
        \cup {c \in {"MISSING_PREV_STATE"} :
                ~create /\ e.state_key # "" /\ e.prev_state = <<>>}
        \cup {c \in {"DEPTH_NEGATIVE"} : depth_negative(e.depth)}
        \cup {c \in {"DEPTH_ZERO"} : ~create /\ e.depth = 0}
        \cup {c \in {"SELF_PREV_EVENT"} : prev_self(e.prev_events, e.event_id)}
        \cup {c \in {"DUP_PREV_EVENT"} : prev_dup(e.prev_events)}
        \cup {c \in {"SELF_PREV_STATE"} : prev_self(e.prev_state, e.event_id)}
        \cup {c \in {"DUP_PREV_STATE"} : prev_dup(e.prev_state)}

\* event::conforms::clean(): report == 0
clean(report) == report = {}

\* event::hash(const m::event &): sha256 of the event as it stringifies
event_hash(e) == [sha256 |-> e]

\* m::event_id(event, buf): id::event{buf, b58encode(readable, hash), my_host()}
event_id(e) == [sigil |-> "$", local |-> [b58 |-> event_hash(e)], host |-> my_host]

\* a room message, well formed
BaseMessage ==
    [event_id |-> EventA1, room_id |-> RoomA, sender |-> UserA,
     type |-> "m.room.message", origin |-> HostA, signatures |-> {HostA},
     redacts |-> <<>>, membership |-> <<>>, content_membership |-> <<>>,
     prev_events |-> <<EventA2>>, prev_state |-> <<>>, auth_events |-> <<EventA2>>,
     state_key |-> "", depth |-> 1]

\* the first event of a room, well formed
BaseCreate ==
    [BaseMessage EXCEPT !.type = "m.room.create", !.prev_events = <<>>,
                        !.auth_events = <<>>, !.depth = 0]

\* a membership state event, well formed
BaseMember ==
    [BaseMessage EXCEPT !.type = "m.room.member", !.membership = MemberJoin,
                        !.content_membership = MemberJoin, !.state_key = "k",
                        !.prev_state = <<EventA2>>]

EventBases == {BaseMessage, BaseCreate, BaseMember}

\* the values a field of a received event can be given
EventDomains ==
    [event_id |-> {<<>>, EventA1, EventB1, EventA2},
     room_id |-> {<<>>, RoomA},
     sender |-> {<<>>, UserA, UserB},
     type |-> {"", "m.room.message", "m.room.create", "m.room.member",
               "m.room.redaction"},
     origin |-> {<<>>, HostA, HostB, HostBad},
     signatures |-> {{}, {HostA}, {HostB}},
     redacts |-> {<<>>, EventA1, EventA2},
     membership |-> {<<>>, MemberJoin, MemberJoinCap},
     content_membership |-> {<<>>, MemberJoin, MemberJoinCap},
     prev_events |-> {<<>>, <<EventA2>>, <<EventA2, EventA2>>, <<EventA1>>},
     prev_state |-> {<<>>, <<EventA2>>, <<EventA2, EventA2>>, <<EventA1>>},
     auth_events |-> {<<>>, <<EventA2>>, <<EventA2, EventA2>>},
     state_key |-> {"", "k"},
     depth |-> {-1, 0, 1}]

EventStep(v) == evt' = v /\ UNCHANGED not_evt

\* an event arrives
EventReceive ==
    /\ evt.act = "init"
    /\ \E e \in EventBases :
          EventStep([evt EXCEPT !.e = e, !.act = "receive"])

\* one field of the event is given another value; report and id are stale
EventEdit ==
    /\ evt.act # "init"
    /\ evt.edits < MaxEdits
    /\ \E f \in DOMAIN EventDomains : \E v \in EventDomains[f] :
          /\ v # evt.e[f]
          /\ EventStep([evt EXCEPT !.e[f] = v, !.edits = @ + 1,
                                   !.conformed = FALSE, !.report = {},
                                   !.minted = FALSE, !.id = <<>>,
                                   !.act = "edit"])

\* event::conforms{e}
EventConform ==
    /\ evt.act # "init"
    /\ ~evt.conformed
    /\ EventStep([evt EXCEPT !.conformed = TRUE, !.report = conforms(evt.e),
                             !.act = "conform"])

\* m::event_id(e, buf)
EventMint ==
    /\ evt.act # "init"
    /\ ~evt.minted
    /\ EventStep([evt EXCEPT !.minted = TRUE, !.id = event_id(evt.e),
                             !.act = "mint"])

EventNext ==
    \/ EventReceive
    \/ EventEdit
    \/ EventConform
    \/ EventMint

EventSpec == Init /\ [][EventNext]_<<vars, others>>

\* the event is one type and one depth away from a clean report
OtherwiseWellFormed(e) ==
    \E ty \in EventDomains.type \ {""} : \E d \in {0, 1} :
        clean(conforms([e EXCEPT !.type = ty, !.depth = d]))

\* codes whose test reads the type and that an empty type lets through
TypeTransitive == {"MISSING_PREV_EVENTS", "MISSING_PREV_STATE"}

\* C17: an otherwise well-formed event with depth -1 and no type is reported
\* with DEPTH_NEGATIVE and MISSING_TYPE, and beyond those only with codes
\* that follow from the missing type.
C17_DepthAndTypeOnly ==
    (/\ evt.conformed
     /\ evt.e.depth = -1
     /\ evt.e.type = ""
     /\ OtherwiseWellFormed(evt.e)) =>
        /\ {"DEPTH_NEGATIVE", "MISSING_TYPE"} \subseteq evt.report
        /\ evt.report \subseteq {"DEPTH_NEGATIVE", "MISSING_TYPE"} \cup TypeTransitive

\* C17 witness: such an event was checked and got exactly the two codes.
C17_Witness ==
    /\ evt.conformed
    /\ evt.e.depth = -1
    /\ evt.e.type = ""
    /\ OtherwiseWellFormed(evt.e)
    /\ evt.report = {"DEPTH_NEGATIVE", "MISSING_TYPE"}

\* C18: an origin that differs from the host of sender (of event_id) gives a
\* report that is not clean and holds the mismatch code, or the invalid-id
\* code when the id is not valid; an origin equal to both hosts gives
\* neither mismatch code.
C18_OriginMatchesHosts ==
    evt.conformed =>
        /\ evt.e.origin # id_host(evt.e.sender) =>
              /\ ~clean(evt.report)
              /\ IF id_valid("@", evt.e.sender)
                 THEN "MISMATCH_ORIGIN_SENDER" \in evt.report
                 ELSE "INVALID_OR_MISSING_SENDER_ID" \in evt.report
        /\ evt.e.origin # id_host(evt.e.event_id) =>
              /\ ~clean(evt.report)
              /\ IF id_valid("$", evt.e.event_id)
                 THEN "MISMATCH_ORIGIN_EVENT_ID" \in evt.report
                 ELSE "INVALID_OR_MISSING_EVENT_ID" \in evt.report
        /\ (/\ evt.e.origin = id_host(evt.e.sender)
            /\ evt.e.origin = id_host(evt.e.event_id)) =>
              /\ "MISMATCH_ORIGIN_SENDER" \notin evt.report
              /\ "MISMATCH_ORIGIN_EVENT_ID" \notin evt.report

\* C18 witness: a checked event whose valid sender is on another host than
\* its origin while its event_id is on the origin's host.
C18_Witness ==
    /\ evt.conformed
    /\ id_valid("@", evt.e.sender)
    /\ id_valid("$", evt.e.event_id)
    /\ evt.e.origin # id_host(evt.e.sender)
    /\ evt.e.origin = id_host(evt.e.event_id)
    /\ "MISMATCH_ORIGIN_SENDER" \in evt.report
    /\ "MISMATCH_ORIGIN_EVENT_ID" \notin evt.report

\* C19: an event that lists the same event id twice in prev_events, or twice
\* in auth_events, does not get a clean report; duplicates in prev_events
\* are reported as DUP_PREV_EVENT and in prev_state as DUP_PREV_STATE.
C19_DuplicatesRejected ==
    evt.conformed =>
        /\ prev_dup(evt.e.prev_events) => "DUP_PREV_EVENT" \in evt.report
        /\ prev_dup(evt.e.prev_state) => "DUP_PREV_STATE" \in evt.report
        /\ prev_dup(evt.e.auth_events) => ~clean(evt.report)

\* C20: the host part of the id minted by event_id(event, buf) for an event
\* that has an origin is that origin.
C20_MintedHostIsOrigin ==
    (evt.minted /\ evt.e.origin # <<>>) => evt.id.host = evt.e.origin

--------------------------------------------------------------------------
\* signing layer: event::sign(json::iov &event, const json::iov &contents).
\* contents is a function from the keys it has to their values; the event iov
\* is the sequence of its members.

PowerKeys ==
    {"ban", "events", "events_default", "kick", "redact", "state_default",
     "users", "users_default"}

ContentKeys ==
    {"aliases", "creator", "history_visibility", "join_rule", "membership",
     "displayname", "body"} \cup PowerKeys

SignTypes ==
    {"m.room.aliases", "m.room.create", "m.room.history_visibility",
     "m.room.join_rules", "m.room.member", "m.room.power_levels",
     "m.room.message", "m.room.topic"}

\* the keys event::sign() copies from contents into the pushed content
sign_keys_mut(type) ==
    IF type = "m.room.aliases" THEN {"aliases"}
    ELSE IF type = "m.room.create" THEN {"creator"}
    ELSE IF type = "m.room.history_visibility" THEN {"history_visibility"}
    ELSE IF type = "m.room.join_rules" THEN {"join_rule"}
    ELSE IF type = "m.room.member" THEN {"membership", "displayname"}
    ELSE IF type = "m.room.power_levels" THEN PowerKeys
    ELSE {}
sign_keys(type) ==
    IF type = "m.room.aliases" THEN {"aliases"}
    ELSE IF type = "m.room.create" THEN {"creator"}
    ELSE IF type = "m.room.history_visibility" THEN {"history_visibility"}
    ELSE IF type = "m.room.join_rules" THEN {"join_rule"}
    ELSE IF type = "m.room.member" THEN {"membership"}
    ELSE IF type = "m.room.power_levels" THEN PowerKeys
    ELSE {}

\* json::iov::push{event, {"content", ...}} and its destructor
iov_push(iov, member) == Append(iov, member)
iov_pop(iov) == SubSeq(iov, 1, Len(iov) - 1)

\* the members of an iov that are named key
iov_members(iov, key) == {i \in 1..Len(iov) : iov[i].k = key}

SignStep(v) == sgn' = v /\ UNCHANGED not_sgn

\* an event iov of some type arrives with contents that have every key
SignReceive ==
    /\ sgn.act = "init"
    /\ \E type \in SignTypes :
          LET iov == <<[k |-> "type", v |-> type], [k |-> "origin", v |-> "a"]>>
          IN  SignStep([sgn EXCEPT !.type = type,
                                   !.contents = [k \in ContentKeys |-> "1"],
                                   !.iov = iov, !.before = iov,
                                   !.act = "receive"])

\* contents without one of its keys
SignDrop ==
    /\ sgn.act # "init"
    /\ sgn.edits < MaxContentEdits
    /\ \E key \in DOMAIN sgn.contents :
          SignStep([sgn EXCEPT !.contents = [k \in DOMAIN @ \ {key} |-> @[k]],
                               !.edits = @ + 1, !.preimage = <<>>,
                               !.before = sgn.iov, !.act = "drop"])

\* contents with another value under one of its keys
SignSet ==
    /\ sgn.act # "init"
    /\ sgn.edits < MaxContentEdits
    /\ \E key \in DOMAIN sgn.contents :
          /\ sgn.contents[key] = "1"
          /\ SignStep([sgn EXCEPT !.contents[key] = "2",
                                  !.edits = @ + 1, !.preimage = <<>>,
                                  !.before = sgn.iov, !.act = "set"])

\* event::sign(event, contents): contents.at(key) throws for a key that is
\* not there; otherwise the content is pushed, sign(event) stringifies the
\* iov, and the push is undone when the branch is left
Sign ==
    /\ sgn.act \in {"receive", "drop", "set"}
    /\ LET keys == sign_keys(sgn.type)
       IN  IF keys \subseteq DOMAIN sgn.contents
           THEN LET pushed == iov_push(sgn.iov,
                                 [k |-> "content",
                                  v |-> [key \in keys |-> sgn.contents[key]]])
                IN  SignStep([sgn EXCEPT !.preimage = pushed,
                                         !.iov = iov_pop(pushed),
                                         !.before = sgn.iov,
                                         !.act = "signed"])
           ELSE SignStep([sgn EXCEPT !.before = sgn.iov, !.act = "threw"])

SignNext ==
    \/ SignReceive
    \/ SignDrop
    \/ SignSet
    \/ Sign

SignSpec == Init /\ [][SignNext]_<<vars, others>>

\* the content keys that survive redaction, by event type
RedactedKeys(type) ==
    CASE type = "m.room.member" -> {"membership"}
      [] type = "m.room.create" -> {"creator"}
      [] type = "m.room.power_levels" -> PowerKeys
      [] type = "m.room.join_rules" -> {"join_rule"}
      [] type = "m.room.history_visibility" -> {"history_visibility"}
      [] type = "m.room.aliases" -> {"aliases"}
      [] OTHER -> {}

\* C21: the preimage event::sign(event, contents) signs has one content
\* member, holding exactly the allowlisted keys of the event's type with the
\* values contents has for them (the empty object for every other type); after
\* sign returns the event iov is what it was and carries no content.
C21_SignsRedactedContent ==
    sgn.act = "signed" =>
        /\ \E i \in 1..Len(sgn.preimage) :
              /\ iov_members(sgn.preimage, "content") = {i}
              /\ DOMAIN sgn.preimage[i].v = RedactedKeys(sgn.type)
              /\ \A key \in RedactedKeys(sgn.type) :
                    sgn.preimage[i].v[key] = sgn.contents[key]
        /\ iov_members(sgn.iov, "content") = {}
        /\ sgn.iov = sgn.before

\* C21 witness: a membership event whose contents also hold displayname and a
\* changed membership was signed over the membership alone.
C21_Witness ==
    /\ sgn.act = "signed"
    /\ sgn.type = "m.room.member"
    /\ "displayname" \in DOMAIN sgn.contents
    /\ sgn.contents["membership"] = "2"
    /\ sgn.preimage[Len(sgn.preimage)].v = [key \in {"membership"} |-> "2"]

--------------------------------------------------------------------------
\* event read layer: m::event::event(const id &, const mutable_buffer &).
\* hist is the sequence of committed states of the row of the event in the
\* events database, one value per column; a snapshot is a position in it.

\* dbs::event_column, in the order the constructor walks it
EventColumns == <<"type", "sender", "content">>

\* database::snapshot{*dbs::events}: the sequence number of the last commit
db_snapshot(hist) == Len(hist)

\* db::cell{column, id, opts}: the value of the column as of opts.snapshot
db_cell_mut(hist, snap, col) == hist[Len(hist)][col]
db_cell(hist, snap, col) == hist[snap][col]

ReadStep(v) == rd' = v /\ UNCHANGED not_rd

\* a write batch commits: some columns of the row get the batch's value
ReadCommit ==
    /\ Len(rd.hist) <= MaxCommits
    /\ \E cols \in SUBSET {EventColumns[n] : n \in 1..Len(EventColumns)} \ {{}} :
          LET top == rd.hist[Len(rd.hist)]
              next == [c \in DOMAIN top |-> IF c \in cols THEN Len(rd.hist) ELSE top[c]]
          IN  ReadStep([rd EXCEPT !.hist = Append(@, next),
                                  !.act = IF rd.i = 0 THEN @ ELSE "commit"])

\* event(id, buf) up to the loop: opts.snapshot = database::snapshot{*dbs::events}
ReadPin ==
    /\ rd.act = "init"
    /\ ReadStep([rd EXCEPT !.snap = db_snapshot(rd.hist), !.i = 1, !.act = "pin"])

\* one turn of the loop: the cell of column i is read and assigned
ReadCell ==
    /\ rd.i \in 1..Len(EventColumns)
    /\ LET col == EventColumns[rd.i]
           val == db_cell(rd.hist, rd.snap, col)
       IN  ReadStep([rd EXCEPT !.event = [c \in DOMAIN @ \cup {col} |->
                                             IF c = col THEN val ELSE @[c]],
                               !.i = @ + 1, !.act = "cell"])

\* after the loop: json::print(buf, *this) and the event built from it
ReadAssemble ==
    /\ rd.i = Len(EventColumns) + 1
    /\ rd.act # "assembled"
    /\ ReadStep([rd EXCEPT !.act = "assembled"])

ReadNext ==
    \/ ReadCommit
    \/ ReadPin
    \/ ReadCell
    \/ ReadAssemble

ReadSpec == Init /\ [][ReadNext]_<<vars, others>>

\* C22: the event assembled by event(id, buf) is the committed state the
\* database had when the snapshot was pinned, whatever was committed between
\* the column reads.
C22_ReadsOneSnapshot ==
    rd.act = "assembled" =>
        /\ rd.snap \in 1..Len(rd.hist)
        /\ rd.event = rd.hist[rd.snap]

\* C22 witness: an event was assembled although write batches changed every
\* column after the snapshot was pinned.
C22_Witness ==
    /\ rd.act = "assembled"
    /\ rd.snap < Len(rd.hist)
    /\ \A c \in DOMAIN rd.event : rd.event[c] # rd.hist[Len(rd.hist)][c]

--------------------------------------------------------------------------
\* console layer: the console commands of SETUP steps 3 and 4, the listener
\* list of s_listen and the conf items.

ListenerNames == {"matrix", "web"}
ConfKeys == {"ircd.web.root.path", "ircd.name"}
ConfValues == {"default", "/riot/webapp/", "/srv/"}

\* loaded_listener(name)
loaded_listener(listeners, name) ==
    \E i \in 1..Len(listeners) : listeners[i] = name

\* load_listener(name): bool ret{false}; return ret;
load_listener(listeners, name) == [listeners |-> listeners, ret |-> FALSE]

\* what console_cmd__net__listen does to the listener list
net_listen(listeners, name) == listeners

\* what console_cmd__conf__set does to the conf items
conf_set(items, key, val) == items

ConsoleStep(v) == con' = v /\ UNCHANGED not_con

\* console_cmd__net__listen with a line: tokens parsed, opts built, return true
ConsoleNetListen ==
    /\ \E name \in ListenerNames :
           ConsoleStep([con EXCEPT !.listeners = net_listen(@, name),
                                   !.cmd = "net listen", !.name = name,
                                   !.out = <<>>, !.ok = TRUE])

\* console_cmd__net__listen__list (also `net listen` with an empty line)
ConsoleNetListenList ==
    /\ ConsoleStep([con EXCEPT !.cmd = "net listen list", !.out = con.listeners,
                               !.ok = TRUE])

\* console_cmd__net__listen__load
ConsoleNetListenLoad ==
    /\ \E name \in ListenerNames :
           LET r == load_listener(con.listeners, name)
           IN  ConsoleStep([con EXCEPT !.listeners = r.listeners,
                                       !.cmd = "net listen load", !.name = name,
                                       !.out = <<IF r.ret THEN "loaded listener"
                                                 ELSE "failed to load listener", name>>,
                                       !.ok = TRUE])

\* console_cmd__net__listen__unload: unload_listener(name)
ConsoleNetListenUnload ==
    /\ \E name \in ListenerNames :
           LET was == loaded_listener(con.listeners, name)
           IN  ConsoleStep([con EXCEPT !.listeners = SelectSeq(@, LAMBDA l : l # name),
                                       !.cmd = "net listen unload", !.name = name,
                                       !.out = <<IF was THEN "unloaded listener"
                                                 ELSE "failed to unload listener", name>>,
                                       !.ok = TRUE])

\* load_listener(name, opts), called with a listener description
LoadListener ==
    /\ \E name \in ListenerNames :
           IF loaded_listener(con.listeners, name)
           THEN ConsoleStep([con EXCEPT !.cmd = "load_listener", !.name = name,
                                        !.ok = FALSE])
           ELSE ConsoleStep([con EXCEPT !.listeners = Append(@, name),
                                        !.cmd = "load_listener", !.name = name,
                                        !.ok = TRUE])

\* console_cmd__conf__set: key and value are read from the line, return true
ConsoleConfSet ==
    /\ \E key \in ConfKeys : \E val \in ConfValues :
           ConsoleStep([con EXCEPT !.items = conf_set(@, key, val),
                                   !.cmd = "conf set", !.key = key, !.val = val,
                                   !.out = <<>>, !.ok = TRUE])

\* console_cmd__conf__get: prints the item, or throws NOT_FOUND
ConsoleConfGet ==
    /\ \E key \in ConfKeys \cup {"ircd.nothing"} :
           IF key \in DOMAIN con.items
           THEN ConsoleStep([con EXCEPT !.cmd = "conf get", !.key = key,
                                        !.out = <<key, con.items[key]>>, !.ok = TRUE])
           ELSE ConsoleStep([con EXCEPT !.cmd = "conf get", !.key = key,
                                        !.out = <<>>, !.ok = FALSE])

\* conf::set(key, value), as default_conf() calls it for an item
ConfSet ==
    /\ \E key \in ConfKeys : \E val \in ConfValues :
           ConsoleStep([con EXCEPT !.items[key] = val, !.cmd = "conf::set",
                                   !.key = key, !.val = val, !.ok = TRUE])

ConsoleNext ==
    \/ ConsoleNetListen
    \/ ConsoleNetListenList
    \/ ConsoleNetListenLoad
    \/ ConsoleNetListenUnload
    \/ LoadListener
    \/ ConsoleConfSet
    \/ ConsoleConfGet
    \/ ConfSet

ConsoleSpec == Init /\ [][ConsoleNext]_<<vars, others>>

\* C23: after `net listen <name> ...` returns, a listener of that name is in
\* the listener list (loaded_listener(name) is true).
C23_NetListenCreatesListener ==
    con.cmd = "net listen" => loaded_listener(con.listeners, con.name)

\* C24: after `conf set <key> <value>` returns, the runtime value of conf
\* item <key> is <value>.
C24_ConfSetConfigures ==
    con.cmd = "conf set" => con.items[con.key] = con.val

--------------------------------------------------------------------------
\* matrix layer: m::on_load, m::on_unload and init::modules.  module_names
\* keeps the first entries, the optional module, the last entries and both
\* entries of m_listen of the list in the source, in their order.

module_names ==
    <<"m_noop", "m_listen", "m_presence", "web_hook", "m_vm", "m_listen">>

module_names_optional == <<"web_hook">>

\* std::count(begin(optional), end(optional), name) != 0
module_optional_mut(name) == FALSE
module_optional(name) ==
    \E i \in 1..Len(module_names_optional) : module_names_optional[i] = name

\* the loop of fini_imports() from position n down: mods::imports.erase(*it),
\* adding what was really unloaded to the log
RECURSIVE fini_imports(_, _)
fini_imports(m, n) ==
    IF n = 0 THEN m
    ELSE LET name == module_names[n]
         IN  fini_imports(
                 IF name \in m.imports
                 THEN [m EXCEPT !.imports = @ \ {name}, !.unloaded = Append(@, name)]
                 ELSE m,
                 n - 1)

\* mods::imports.erase(name) outside the loop
imports_erase(m, name) ==
    IF name \in m.imports
    THEN [m EXCEPT !.imports = @ \ {name}, !.unloaded = Append(@, name)]
    ELSE m

MatrixStep(m) == mx' = m /\ UNCHANGED not_mx

\* m::on_load() up to the loop of init_imports(): _dbs, _fetch, then the
\* constructor of init::modules
MatrixOnLoad ==
    /\ mx.phase = "down"
    /\ \E autoload \in BOOLEAN :
          LET m == [mx EXCEPT !.dbs = TRUE, !.fetch = TRUE,
                              !.inits = <<"dbs", "fetch">>, !.finis = <<>>,
                              !.tried = <<>>, !.loaded = <<>>, !.unloaded = <<>>]
          IN  IF autoload
              THEN MatrixStep([m EXCEPT !.phase = "loading"])
              ELSE MatrixStep([m EXCEPT !.modules = TRUE, !.phase = "up",
                                        !.inits = Append(@, "modules")])

\* one turn of the loop of init_imports(): mods::imports.emplace(name, name)
\* loads the module or throws; after the last turn the constructor returns
\* and on_load() has _modules
MatrixImport ==
    /\ mx.phase = "loading"
    /\ LET n == Len(mx.tried) + 1
           name == module_names[n]
           final == n = Len(module_names)
           up(m) == IF final
                    THEN [m EXCEPT !.phase = "up", !.modules = TRUE,
                                   !.inits = Append(@, "modules")]
                    ELSE m
       IN  \/ /\ name \in mx.imports
              /\ MatrixStep(up([mx EXCEPT !.tried = Append(@, [name |-> name, ok |-> TRUE])]))
           \/ /\ name \notin mx.imports
              /\ MatrixStep(up([mx EXCEPT !.tried = Append(@, [name |-> name, ok |-> TRUE]),
                                          !.imports = @ \cup {name},
                                          !.loaded = Append(@, name)]))
           \/ /\ name \notin mx.imports
              /\ LET m == [mx EXCEPT !.tried = Append(@, [name |-> name, ok |-> FALSE])]
                 IN  IF module_optional(name)
                     THEN MatrixStep(up(m))
                     ELSE MatrixStep(fini_imports([m EXCEPT !.phase = "failed"],
                                                  Len(module_names)))

\* m::on_unload(): mods::imports.erase("m_listen"), then _fetch, _modules
\* (whose destructor runs fini_imports()) and _dbs are reset
MatrixOnUnload ==
    /\ mx.phase \in {"up", "failed"}
    /\ LET a == imports_erase(mx, "m_listen")
           b == [a EXCEPT !.fetch = FALSE,
                          !.finis = IF a.fetch THEN Append(@, "fetch") ELSE @]
           c == IF b.modules
                THEN [fini_imports(b, Len(module_names))
                         EXCEPT !.modules = FALSE, !.finis = Append(@, "modules")]
                ELSE b
           d == [c EXCEPT !.dbs = FALSE,
                          !.finis = IF c.dbs THEN Append(@, "dbs") ELSE @]
       IN  MatrixStep([d EXCEPT !.phase = "unloaded"])

\* console_cmd__mod__load for one name: a loaded module is reported, any
\* other is emplaced in mods::imports, which loads it or throws
MatrixModLoad ==
    /\ mx.phase = "up"
    /\ \E i \in 1..Len(module_names), loads \in BOOLEAN :
          LET name == module_names[i]
          IN  IF name \in mx.imports
              THEN MatrixStep([mx EXCEPT !.out = "is already loaded."])
              ELSE IF loads
                   THEN MatrixStep([mx EXCEPT !.imports = @ \cup {name},
                                              !.out = "loaded."])
                   ELSE MatrixStep([mx EXCEPT !.out = "error"])

\* console_cmd__mod__unload for one name: mods::imports.erase(name)
MatrixModUnload ==
    /\ mx.phase = "up"
    /\ \E i \in 1..Len(module_names) :
          LET name == module_names[i]
          IN  IF name \notin mx.imports
              THEN MatrixStep([mx EXCEPT !.out = "is not loaded."])
              ELSE MatrixStep([mx EXCEPT !.imports = @ \ {name},
                                         !.out = "unloaded"])

MatrixNext ==
    \/ MatrixOnLoad
    \/ MatrixImport
    \/ MatrixOnUnload
    \/ MatrixModLoad
    \/ MatrixModUnload

MatrixSpec == Init /\ [][MatrixNext]_<<vars, others>>

\* the position of a name in a log that holds it once
LogPos(log, name) == CHOOSE i \in 1..Len(log) : log[i] = name

LogHas(log, name) == \E i \in 1..Len(log) : log[i] = name

\* C25: for two modules a and b, if a was loaded before b and both were
\* unloaded, then b was unloaded before a.
C25_UnloadReversesLoad ==
    \A i, j \in 1..Len(mx.loaded) :
        (/\ i < j
         /\ LogHas(mx.unloaded, mx.loaded[i])
         /\ LogHas(mx.unloaded, mx.loaded[j])) =>
            LogPos(mx.unloaded, mx.loaded[j]) < LogPos(mx.unloaded, mx.loaded[i])

\* C26: a loading error of a module listed in module_names_optional never
\* ends the loop: the module is skipped and the loop goes on to every later
\* module, all of which are imported once the loop is done; a loading error
\* of any other module is the last turn of the loop and leaves init_imports
\* by the exception.
C26_OptionalErrorsSkipped ==
    \A i \in 1..Len(mx.tried) :
        ~mx.tried[i].ok =>
            IF LogHas(module_names_optional, mx.tried[i].name)
            THEN /\ mx.phase = "loading" => mx.tried[i].name \notin mx.imports
                 /\ mx.phase = "failed" =>
                       \E j \in (i + 1)..Len(mx.tried) :
                           /\ ~mx.tried[j].ok
                           /\ ~LogHas(module_names_optional, mx.tried[j].name)
                 /\ mx.phase = "up" =>
                       /\ Len(mx.tried) = Len(module_names)
                       /\ \A j \in (i + 1)..Len(mx.tried) :
                             mx.tried[j].ok => LogHas(mx.loaded, mx.tried[j].name)
            ELSE /\ i = Len(mx.tried)
                 /\ mx.phase \in {"failed", "unloaded"}

\* C26 witness: the optional module failed to load and the modules after it
\* in the list were loaded.
C26_Witness ==
    /\ mx.phase = "up"
    /\ Len(mx.tried) = Len(module_names)
    /\ ~mx.tried[4].ok
    /\ mx.tried[4].name = "web_hook"
    /\ "m_vm" \in mx.imports
    /\ mx.loaded = <<"m_noop", "m_listen", "m_presence", "m_vm">>

\* C27: m::on_unload releases the subsystems in the reverse of the order in
\* which m::on_load initialised them.
C27_TeardownReversesInit ==
    (mx.phase = "unloaded" /\ Len(mx.inits) = 3) =>
        /\ Len(mx.finis) = 3
        /\ \A i \in 1..3 : mx.finis[i] = mx.inits[4 - i]

\* ---------------------------------------------------------------- wait_until(tp, nothrow)

jump_notes(n) == 0

\* C29: the assertions on the note counter hold: notes <= 1 when a continuation
\* is constructed (the context suspends in wait(), or would in jump()), and
\* notes = 1 when the context has resumed, whatever number of notifications
\* reached it while it was suspended.
C29_NoteAssertionsHold ==
    /\ last.act = "wait_suspended" => notes[last.t] <= 1
    /\ last.act = "resume" => notes[last.t] = 1
    /\ \A t \in Tasks :
          /\ jump_notes(notes[t]) <= 1
          /\ continuation_notes(jump_notes(notes[t])) = 1

\* C29 witness: a context that was notified twice while suspended has resumed
\* with its counter at 1.
C29_Witness ==
    /\ last.act = "resume"
    /\ last.k >= 2
    /\ notes[last.t] = 1

\* ---------------------------------------------------------------- offload frame lifetime

\* the closure pushed by the offload() call f is queued or running on the
\* offload thread
ClosurePending(f) ==
    \/ \E i \in 1..Len(ole.queue) : ole.queue[i] = f
    \/ ole.thread = f

\* C30 as claimed: while the closure of an offload() call is queued or
\* running on the offload thread, that call's frame is alive: the context has
\* neither returned from it nor unwound out of it.
C30_FrameOutlivesClosure ==
    \A f \in 1..MaxOffload : ClosurePending(f) => ole.frame = f

\* ---------------------------------------------------------------- finished(ctx)

\* ctx::started() on the child's ctx: yc is set by ctx::operator() on entry and
\* cleared by its atexit unwind; the constructor leaves it nullptr
SpStarted(s) == s.child \in {"run", "wait", "woken"}

\* ctx::finished() on the child's ctx: yc == nullptr
SpFinished(s) == ~SpStarted(s)

\* C31 as claimed: finished(ctx) holds exactly when the context's function has
\* been entered and has returned, or was skipped by a precocious interrupt; a
\* context constructed with POST whose function has not begun is not finished.
C31_FinishedIffReturned ==
    (sp.child # "none" /\ sp.freed = 0) =>
        (SpFinished(sp) = (sp.child = "done"))

\* ---------------------------------------------------------------- ole::init::~init

\* C32: when the offload thread has exited after ~init(), interruption was
\* set and no closure queued before the exit is left unexecuted: every closure
\* that was in the queue when ~init() began has run to completion, and
\* ~init() returns only after the thread has exited.
C32_WorkerDrainsQueue ==
    /\ ole.worker = "exited" =>
          /\ ole.interruption
          /\ ole.thread = 0
          /\ \A f \in ole.left : ole.execs[f] = 1 /\ f \in ole.completed
    /\ ole.dtor = "joining" =>
          \A f \in ole.left : ClosurePending(f) \/ f \in ole.completed
    /\ ole.dtor = "returned" => ole.worker = "exited"
    /\ (ole.act \in {"exit", "joined"}) => ole.queue = <<>>

\* C32 witness: ~init() began with a closure queued and has returned after the
\* offload thread ran it and exited.
C32_Witness ==
    /\ ole.dtor = "returned"
    /\ ole.act = "joined"
    /\ ole.left # {}
    /\ \A f \in ole.left : ole.execs[f] = 1

\* ---------------------------------------------------------------- pool::available

\* C33 as claimed: available never leaves 0..size(), size() being the number
\* of handles in ctxs.
C33_AvailableWithinSize ==
    /\ 0 <= pool.available
    /\ pool.available <= Len(pool.ctxs)

\* C34 as claimed: after a closure has thrown anything but interrupted, its
\* worker is alive at the top of main()'s loop, ready for the next closure.
C34_ExceptionsCaught ==
    pool.act = "threw" =>
        /\ pool.cur = pool.who
        /\ pool.ctx[pool.who].st = "top"

\* ---------------------------------------------------------------- view: one view per object

\* C35: no consumer has received the object of one notify() call twice: what
\* wait() returns to a consumer is an object it has not been handed before,
\* also when it called wait() again while the view was still ready; and a
\* notify() call that found no waiting consumer has left the view's pointer
\* alone, so the pointer is not at that call's object.
C35_ViewedAtMostOnce ==
    /\ ~view.dup
    /\ view.act = "view" => view.t # 0 /\ view.t \in view.seen[view.cur]
    /\ view.act = "nowaiters" => view.t # view.n

\* C35 witness: a consumer that had received the first object and waited again
\* while the view was still ready has now received the second object, once.
C35_Witness ==
    /\ view.act = "view"
    /\ view.t = 2
    /\ \E c \in ViewConsumers :
          /\ view.ctx[c].st = "viewing"
          /\ view.seen[c] = {1, 2}
          /\ c \in view.back
    /\ ~view.dup

\* ---------------------------------------------------------------- conforms: INVALID_ORIGIN

\* C36: no report of conforms holds INVALID_ORIGIN, whatever the origin of the
\* event; an origin that is not empty is not reported as missing either, so a
\* malformed origin is reported by neither of the codes about the origin's
\* own form.
C36_InvalidOriginNeverSet ==
    evt.conformed =>
        /\ "INVALID_ORIGIN" \notin evt.report
        /\ evt.e.origin # <<>> => "MISSING_ORIGIN" \notin evt.report

\* C36 witness: an event with a malformed, non-empty origin has been checked
\* and its report holds no code about the form of the origin.
C36_Witness ==
    /\ evt.conformed
    /\ evt.act = "conform"
    /\ evt.e.origin # <<>>
    /\ malformed(evt.e.origin)
    /\ evt.report \cap {"INVALID_ORIGIN", "MISSING_ORIGIN"} = {}

====
